---------------------------- MODULE Spec2Model ----------------------------
(***************************************************************************)
(* Model of merge_panel_data_v2.py: the country normalizer, the six source *)
(* adapters, merge_all_data, interpolate_missing_years,                    *)
(* impute_with_commercial_score and main.                                  *)
(*                                                                         *)
(* Representation.  A Python string is the sequence of its characters,     *)
(* each character a one-character TLA+ string; a non-ASCII character is    *)
(* the atom "U+XXXX" of its code point.  A float is an exact rational      *)
(* [n, d] in lowest terms with d > 0, and NaN is [n |-> 0, d |-> 0].       *)
(***************************************************************************)
EXTENDS Integers, Sequences, FiniteSets, TLC

VARIABLES
  pc,               \* the function being executed, or where main stopped
  raw_source,       \* <<what the adapter that has just returned found on disk>>
  country_name,     \* argument of standardize_country_name
  std_name,         \* its return value
  all_dataframes,   \* main: the adapters' tables, in the order main runs them
  df_merged,        \* main: the table merge_all_data returned
  df_interpolated,  \* main: the table interpolate_missing_years returned
  df_final,         \* main: the table impute_with_commercial_score returned
  output_file,      \* the artifacts written to final_model_data.csv, in order
  raised            \* TRUE once an exception has propagated into main

vars ==
  <<pc, raw_source, country_name, std_name, all_dataframes, df_merged, df_interpolated,
    df_final, output_file, raised>>

----------------------------------------------------------------------------
(* Strings *)

\* Python's None, distinct from every string: no character is the atom "None".
None == <<"None">>

\* A missing cell of a text column (NaN), distinct from every string.
NaN == <<"NaN">>

UpperLetters ==
  <<"A", "B", "C", "D", "E", "F", "G", "H", "I", "J", "K", "L", "M",
    "N", "O", "P", "Q", "R", "S", "T", "U", "V", "W", "X", "Y", "Z">>

LowerLetters ==
  <<"a", "b", "c", "d", "e", "f", "g", "h", "i", "j", "k", "l", "m",
    "n", "o", "p", "q", "r", "s", "t", "u", "v", "w", "x", "y", "z">>

Whitespace == {" ", "\t", "\n", "\r"}

LowerChar(c) ==
  IF \E i \in 1..Len(UpperLetters) : UpperLetters[i] = c
  THEN LowerLetters[CHOOSE i \in 1..Len(UpperLetters) : UpperLetters[i] = c]
  ELSE c

UpperChar(c) ==
  IF \E i \in 1..Len(LowerLetters) : LowerLetters[i] = c
  THEN UpperLetters[CHOOSE i \in 1..Len(LowerLetters) : LowerLetters[i] = c]
  ELSE c

\* str.lower() and str.upper()
Lower(s) == [i \in 1..Len(s) |-> LowerChar(s[i])]

Upper(s) == [i \in 1..Len(s) |-> UpperChar(s[i])]

\* str.strip(): leading and trailing whitespace removed
RECURSIVE LStrip(_)
LStrip(s) ==
  IF s # <<>> /\ Head(s) \in Whitespace THEN LStrip(Tail(s)) ELSE s

RECURSIVE RStrip(_)
RStrip(s) ==
  IF s # <<>> /\ s[Len(s)] \in Whitespace
  THEN RStrip(SubSeq(s, 1, Len(s) - 1))
  ELSE s

Strip(s) == RStrip(LStrip(s))

\* Python's `sub in s` on strings
Contains(s, sub) ==
  \E i \in 0..(Len(s) - Len(sub)) : SubSeq(s, i + 1, i + Len(sub)) = sub

\* Python's `x in list`
InList(x, list) == \E i \in 1..Len(list) : list[i] = x

----------------------------------------------------------------------------
(* Configuration: lines 20-83 *)

UnitedStates ==
  <<"U", "n", "i", "t", "e", "d", " ", "S", "t", "a", "t", "e", "s">>

China ==
  <<"C", "h", "i", "n", "a">>

UnitedKingdom ==
  <<"U", "n", "i", "t", "e", "d", " ", "K", "i", "n", "g", "d", "o", "m">>

Germany ==
  <<"G", "e", "r", "m", "a", "n", "y">>

Japan ==
  <<"J", "a", "p", "a", "n">>

SouthKorea ==
  <<"S", "o", "u", "t", "h", " ", "K", "o", "r", "e", "a">>

France ==
  <<"F", "r", "a", "n", "c", "e">>

Canada ==
  <<"C", "a", "n", "a", "d", "a">>

India ==
  <<"I", "n", "d", "i", "a">>

UnitedArabEmirates ==
  <<"U", "n", "i", "t", "e", "d", " ", "A", "r", "a", "b", " ", "E", "m", "i", "r", "a", "t",
    "e", "s">>

\* TARGET_COUNTRIES, in declaration order.
TARGET_COUNTRIES ==
  <<UnitedStates, China, UnitedKingdom, Germany, Japan, SouthKorea,
    France, Canada, India, UnitedArabEmirates>>

\* COUNTRY_NAME_MAPPING as the ordered list of its items (a dict iterates in insertion order).
COUNTRY_NAME_MAPPING ==
  <<
    [variant |->
        <<"P", "e", "o", "p", "l", "e", "'", "s", " ", "R", "e", "p", "u", "b", "l", "i", "c",
          " ", "o", "f", " ", "C", "h", "i", "n", "a">>,
     standard |-> China],
    [variant |->
        <<"C", "h", "i", "n", "a", " ", "(", "P", "e", "o", "p", "l", "e", "'", "s", " ", "R",
          "e", "p", "u", "b", "l", "i", "c", " ", "o", "f", ")">>,
     standard |-> China],
    [variant |->
        <<"C", "H", "N">>,
     standard |-> China],
    [variant |->
        <<"P", "R", "C">>,
     standard |-> China],
    [variant |->
        <<"U+4E2D", "U+56FD">>,
     standard |-> China],
    [variant |->
        <<"K", "o", "r", "e", "a">>,
     standard |-> SouthKorea],
    [variant |->
        <<"R", "e", "p", "u", "b", "l", "i", "c", " ", "o", "f", " ", "K", "o", "r", "e", "a">>,
     standard |-> SouthKorea],
    [variant |->
        <<"K", "o", "r", "e", "a", ",", " ", "R", "e", "p", ".">>,
     standard |-> SouthKorea],
    [variant |->
        <<"K", "O", "R">>,
     standard |-> SouthKorea],
    [variant |->
        <<"S", "o", "u", "t", "h", " ", "K", "o", "r", "e", "a", " ", "(", "R", "e", "p", "u",
          "b", "l", "i", "c", " ", "o", "f", " ", "K", "o", "r", "e", "a", ")">>,
     standard |-> SouthKorea],
    [variant |->
        <<"U+97E9", "U+56FD">>,
     standard |-> SouthKorea],
    [variant |->
        <<"U", "S", "A">>,
     standard |-> UnitedStates],
    [variant |->
        <<"U", ".", "S", ".", "A", ".">>,
     standard |-> UnitedStates],
    [variant |->
        <<"U", "S">>,
     standard |-> UnitedStates],
    [variant |->
        <<"U", ".", "S", ".">>,
     standard |-> UnitedStates],
    [variant |->
        <<"U", "n", "i", "t", "e", "d", " ", "S", "t", "a", "t", "e", "s", " ", "o", "f", " ",
          "A", "m", "e", "r", "i", "c", "a">>,
     standard |-> UnitedStates],
    [variant |->
        <<"U+7F8E", "U+56FD">>,
     standard |-> UnitedStates],
    [variant |->
        <<"U", "K">>,
     standard |-> UnitedKingdom],
    [variant |->
        <<"G", "B", "R">>,
     standard |-> UnitedKingdom],
    [variant |->
        <<"G", "r", "e", "a", "t", " ", "B", "r", "i", "t", "a", "i", "n">>,
     standard |-> UnitedKingdom],
    [variant |->
        <<"U", "n", "i", "t", "e", "d", " ", "K", "i", "n", "g", "d", "o", "m", " ", "o", "f",
          " ", "G", "r", "e", "a", "t", " ", "B", "r", "i", "t", "a", "i", "n", " ", "a", "n",
          "d", " ", "N", "o", "r", "t", "h", "e", "r", "n", " ", "I", "r", "e", "l", "a", "n",
          "d">>,
     standard |-> UnitedKingdom],
    [variant |->
        <<"U+82F1", "U+56FD">>,
     standard |-> UnitedKingdom],
    [variant |->
        <<"D", "E", "U">>,
     standard |-> Germany],
    [variant |->
        <<"D", "e", "u", "t", "s", "c", "h", "l", "a", "n", "d">>,
     standard |-> Germany],
    [variant |->
        <<"U+5FB7", "U+56FD">>,
     standard |-> Germany],
    [variant |->
        <<"J", "P", "N">>,
     standard |-> Japan],
    [variant |->
        <<"U+65E5", "U+672C">>,
     standard |-> Japan],
    [variant |->
        <<"F", "R", "A">>,
     standard |-> France],
    [variant |->
        <<"U+6CD5", "U+56FD">>,
     standard |-> France],
    [variant |->
        <<"C", "A", "N">>,
     standard |-> Canada],
    [variant |->
        <<"U+52A0", "U+62FF", "U+5927">>,
     standard |-> Canada],
    [variant |->
        <<"I", "N", "D">>,
     standard |-> India],
    [variant |->
        <<"U+5370", "U+5EA6">>,
     standard |-> India],
    [variant |->
        <<"U", "A", "E">>,
     standard |-> UnitedArabEmirates],
    [variant |->
        <<"A", "R", "E">>,
     standard |-> UnitedArabEmirates],
    [variant |->
        <<"E", "m", "i", "r", "a", "t", "e", "s">>,
     standard |-> UnitedArabEmirates],
    [variant |->
        <<"U+963F", "U+8054", "U+914B">>,
     standard |-> UnitedArabEmirates]
  >>

----------------------------------------------------------------------------
(* Country normalizer: lines 85-111 *)

\* The fuzzy-match loop of lines 101-103, from item i of the mapping on:
\* the first item whose variant contains the name, or is contained in it,
\* case-insensitively, decides.
\* The loop with one direction of the test only: an alias inside the name.
RECURSIVE FuzzyAliasInName(_, _)
FuzzyAliasInName(name, i) ==
  IF i > Len(COUNTRY_NAME_MAPPING) THEN None
  ELSE IF Contains(Lower(name), Lower(COUNTRY_NAME_MAPPING[i].variant))
  THEN COUNTRY_NAME_MAPPING[i].standard
  ELSE FuzzyAliasInName(name, i + 1)

RECURSIVE FuzzyFrom(_, _)
FuzzyFrom(name, i) ==
  IF i > Len(COUNTRY_NAME_MAPPING) THEN None
  ELSE LET variant  == COUNTRY_NAME_MAPPING[i].variant
           standard == COUNTRY_NAME_MAPPING[i].standard
       IN  IF Contains(Lower(name), Lower(variant)) \/ Contains(Lower(variant), Lower(name))
           THEN standard
           ELSE FuzzyFrom(name, i + 1)

standardize_country_name(raw) ==
  IF raw = NaN THEN None
  ELSE LET name == Strip(raw)
       IN  IF InList(name, TARGET_COUNTRIES) THEN name
           ELSE IF \E i \in 1..Len(COUNTRY_NAME_MAPPING) :
                     COUNTRY_NAME_MAPPING[i].variant = name
           THEN COUNTRY_NAME_MAPPING[
                  CHOOSE i \in 1..Len(COUNTRY_NAME_MAPPING) :
                    COUNTRY_NAME_MAPPING[i].variant = name].standard
           ELSE FuzzyFrom(name, 1)

----------------------------------------------------------------------------
(* Numbers and cells *)

\* numpy's nan
nan == [n |-> 0, d |-> 0]

isna(v) == v.d = 0

Abs(i) == IF i < 0 THEN -i ELSE i

RECURSIVE GCD(_, _)
GCD(a, b) == IF b = 0 THEN a ELSE GCD(b, a % b)

\* The rational n/d in lowest terms, d > 0.
Rat(n, d) ==
  LET g == GCD(Abs(n), Abs(d))
      s == IF d < 0 THEN -1 ELSE 1
  IN  [n |-> (s * n) \div g, d |-> (s * d) \div g]

Num(i) == [n |-> i, d |-> 1]

\* Float arithmetic; nan is absorbing.
RAdd(a, b) == IF isna(a) \/ isna(b) THEN nan ELSE Rat(a.n * b.d + b.n * a.d, a.d * b.d)

RSub(a, b) == IF isna(a) \/ isna(b) THEN nan ELSE Rat(a.n * b.d - b.n * a.d, a.d * b.d)

RMulInt(a, k) == IF isna(a) THEN nan ELSE Rat(a.n * k, a.d)

RDivInt(a, k) == IF isna(a) \/ k = 0 THEN nan ELSE Rat(a.n, a.d * k)

RLess(a, b) == a.n * b.d < b.n * a.d

\* int(x) of a float: truncation toward zero
Trunc(a) == IF a.n >= 0 THEN a.n \div a.d ELSE -((-a.n) \div a.d)

\* A cell of a table: a number (nan when missing) or, in a column of dtype
\* object, a text.
NumCell(v) == [k |-> "num", s |-> <<>>, v |-> v]

TextCell(s) == [k |-> "str", s |-> s, v |-> nan]

NaNCell == NumCell(nan)

IsText(c) == c.k = "str"

\* Series.isna() of one cell
CellIsNa(c) == c.k = "num" /\ isna(c.v)

\* What standardize_country_name receives from a cell of the country column.
CellName(c) == IF IsText(c) THEN c.s ELSE NaN

Digits == <<"0", "1", "2", "3", "4", "5", "6", "7", "8", "9">>

IsDigit(c) == \E i \in 1..Len(Digits) : Digits[i] = c

DigitValue(c) == (CHOOSE i \in 1..Len(Digits) : Digits[i] = c) - 1

\* str.isdigit()
IsDigitString(s) == s # <<>> /\ \A i \in 1..Len(s) : IsDigit(s[i])

\* int(s) of a digit string
RECURSIVE ParseInt(_)
ParseInt(s) ==
  IF s = <<>> THEN 0 ELSE 10 * ParseInt(SubSeq(s, 1, Len(s) - 1)) + DigitValue(s[Len(s)])

\* pd.to_numeric(errors='coerce') of one cell: a number stays, a text of
\* digits is parsed, any other text becomes nan.
to_numeric(c) ==
  IF ~IsText(c) THEN c.v
  ELSE IF IsDigitString(Strip(c.s)) THEN Num(ParseInt(Strip(c.s)))
  ELSE nan

\* Code-point order of the characters that occur in canonical names.
Ascii ==
    <<" ", "'", "(", ")", ",", "-", ".", "0", "1", "2", "3", "4", "5", "6", "7", "8", "9", "A",
      "B", "C", "D", "E", "F", "G", "H", "I", "J", "K", "L", "M", "N", "O", "P", "Q", "R", "S",
      "T", "U", "V", "W", "X", "Y", "Z", "_", "a", "b", "c", "d", "e", "f", "g", "h", "i", "j",
      "k", "l", "m", "n", "o", "p", "q", "r", "s", "t", "u", "v", "w", "x", "y", "z">>

Ord(c) == CHOOSE i \in 1..Len(Ascii) : Ascii[i] = c

\* Python's s < t on strings
RECURSIVE StrLess(_, _)
StrLess(s, t) ==
  IF t = <<>> THEN FALSE
  ELSE IF s = <<>> THEN TRUE
  ELSE IF Head(s) = Head(t) THEN StrLess(Tail(s), Tail(t))
  ELSE Ord(Head(s)) < Ord(Head(t))

Col_Country ==
  <<"C", "o", "u", "n", "t", "r", "y">>

Col_Year ==
  <<"Y", "e", "a", "r">>

Col_GERD_Million_USD ==
  <<"G", "E", "R", "D", "_", "M", "i", "l", "l", "i", "o", "n", "_", "U", "S", "D">>

Col_Researchers ==
  <<"R", "e", "s", "e", "a", "r", "c", "h", "e", "r", "s">>

Col_Total_Generation_TWh ==
  <<"T", "o", "t", "a", "l", "_", "G", "e", "n", "e", "r", "a", "t", "i", "o", "n", "_", "T",
    "W", "h">>

Col_Renewables_Generation_TWh ==
  <<"R", "e", "n", "e", "w", "a", "b", "l", "e", "s", "_", "G", "e", "n", "e", "r", "a", "t",
    "i", "o", "n", "_", "T", "W", "h">>

Col_Fibre_Percentage ==
  <<"F", "i", "b", "r", "e", "_", "P", "e", "r", "c", "e", "n", "t", "a", "g", "e">>

Col_Compute_Power_Rmax ==
  <<"C", "o", "m", "p", "u", "t", "e", "_", "P", "o", "w", "e", "r", "_", "R", "m", "a", "x">>

Col_AI_Patents ==
  <<"A", "I", "_", "P", "a", "t", "e", "n", "t", "s">>

Col_AI_Publications ==
  <<"A", "I", "_", "P", "u", "b", "l", "i", "c", "a", "t", "i", "o", "n", "s">>

Col_AI_Citations ==
  <<"A", "I", "_", "C", "i", "t", "a", "t", "i", "o", "n", "s">>

Col_AI_Models ==
  <<"A", "I", "_", "M", "o", "d", "e", "l", "s">>

Col_AI_Metric ==
  <<"A", "I", "_", "M", "e", "t", "r", "i", "c">>

Col_Policy_Score ==
  <<"P", "o", "l", "i", "c", "y", "_", "S", "c", "o", "r", "e">>

Col_Commercial_Score ==
  <<"C", "o", "m", "m", "e", "r", "c", "i", "a", "l", "_", "S", "c", "o", "r", "e">>

Col_Business_AI_Adoption ==
  <<"B", "u", "s", "i", "n", "e", "s", "s", "_", "A", "I", "_", "A", "d", "o", "p", "t", "i",
    "o", "n">>
\* str() of a missing value
Kw_nan == <<"n", "a", "n">>

----------------------------------------------------------------------------
(* Tables keyed by (Country, Year) *)

(***************************************************************************)
(* A DataFrame with Country and Year columns: `columns` is df.columns in   *)
(* order, `rows` the rows in index order.  A row is                        *)
(* [Country, Year, f], f mapping each other column's name to its cell.     *)
(***************************************************************************)
DataFrame(columns, rows) == [columns |-> columns, rows |-> rows]

\* pd.DataFrame(): no columns, no rows
EmptyDF == DataFrame(<<>>, <<>>)

Range(seq) == {seq[i] : i \in 1..Len(seq)}

\* The feature columns: every column but the two key columns, in order.
FeatureCols(df) ==
  LET IsFeature(c) == c # Col_Country /\ c # Col_Year
  IN  SelectSeq(df.columns, IsFeature)

Key(row) == <<row.Country, row.Year>>

Keys(df) == {Key(df.rows[i]) : i \in 1..Len(df.rows)}

KeyLess(a, b) == StrLess(a[1], b[1]) \/ (a[1] = b[1] /\ a[2] < b[2])

RowsWithKey(df, key) ==
  LET HasKey(r) == Key(r) = key
  IN  SelectSeq(df.rows, HasKey)

\* A set of keys as the sequence of its elements in ascending order.
RECURSIVE SortedKeys(_)
SortedKeys(keys) ==
  IF keys = {} THEN <<>>
  ELSE LET least == CHOOSE k \in keys : \A other \in keys \ {k} : KeyLess(k, other)
       IN  <<least>> \o SortedKeys(keys \ {least})

\* rows.sort_values(['Country', 'Year']), rows with equal keys keeping their order
RECURSIVE SortByKey(_)
SortByKey(rows) ==
  IF rows = <<>> THEN <<>>
  ELSE LET last   == rows[Len(rows)]
           sorted == SortByKey(SubSeq(rows, 1, Len(rows) - 1))
           NotAfter(r) == ~KeyLess(Key(last), Key(r))
           After(r) == KeyLess(Key(last), Key(r))
       IN  SelectSeq(sorted, NotAfter) \o <<last>> \o SelectSeq(sorted, After)

RECURSIVE Flatten(_)
Flatten(seqs) == IF seqs = <<>> THEN <<>> ELSE Head(seqs) \o Flatten(Tail(seqs))

----------------------------------------------------------------------------
(* Merge engine: lines 741-764 *)

\* pd.merge(left, right, on=['Country', 'Year'], how='inner'): the keys of both
\* sides only.
pd_merge_inner(left, right) ==
  LET lcols == FeatureCols(left)
      rcols == FeatureCols(right)
      fcols == Range(lcols) \cup Range(rcols)
      Join(l, r) ==
        [Country |-> l.Country, Year |-> l.Year,
         f |-> [c \in fcols |-> IF c \in Range(lcols) THEN l.f[c] ELSE r.f[c]]]
      RowsOf(key) ==
        Flatten([i \in 1..Len(RowsWithKey(left, key)) |->
                  [j \in 1..Len(RowsWithKey(right, key)) |->
                    Join(RowsWithKey(left, key)[i], RowsWithKey(right, key)[j])]])
      keys == SortedKeys(Keys(left) \cap Keys(right))
  IN  DataFrame(left.columns \o rcols, Flatten([i \in 1..Len(keys) |-> RowsOf(keys[i])]))

\* pd.merge(left, right, on=['Country', 'Year'], how='outer'): the keys of both
\* sides in ascending order; a key of both sides gives every pairing of its left
\* and right rows, a key of one side that side's rows with the other side's
\* columns missing.  The adapters' feature columns are pairwise distinct.
pd_merge_outer(left, right) ==
  LET lcols == FeatureCols(left)
      rcols == FeatureCols(right)
      fcols == Range(lcols) \cup Range(rcols)
      Join(l, r) ==
        [Country |-> l.Country, Year |-> l.Year,
         f |-> [c \in fcols |-> IF c \in Range(lcols) THEN l.f[c] ELSE r.f[c]]]
      LeftOnly(l) ==
        [Country |-> l.Country, Year |-> l.Year,
         f |-> [c \in fcols |-> IF c \in Range(lcols) THEN l.f[c] ELSE NaNCell]]
      RightOnly(r) ==
        [Country |-> r.Country, Year |-> r.Year,
         f |-> [c \in fcols |-> IF c \in Range(rcols) THEN r.f[c] ELSE NaNCell]]
      RowsOf(key) ==
        LET ls == RowsWithKey(left, key)
            rs == RowsWithKey(right, key)
        IN  IF ls # <<>> /\ rs # <<>>
            THEN Flatten([i \in 1..Len(ls) |-> [j \in 1..Len(rs) |-> Join(ls[i], rs[j])]])
            ELSE IF ls # <<>> THEN [i \in 1..Len(ls) |-> LeftOnly(ls[i])]
            ELSE [j \in 1..Len(rs) |-> RightOnly(rs[j])]
      keys == SortedKeys(Keys(left) \cup Keys(right))
  IN  DataFrame(left.columns \o rcols, Flatten([i \in 1..Len(keys) |-> RowsOf(keys[i])]))

\* The loop of lines 745-751 over df_list[i..]; df_merged is <<>> while it is
\* None and <<table>> once a non-empty table has seeded it.
RECURSIVE MergeFrom(_, _, _)
MergeFrom(df_list, i, merged) ==
  IF i > Len(df_list) THEN merged
  ELSE LET df == df_list[i]
       IN  IF Len(df.rows) > 0
           THEN MergeFrom(df_list, i + 1,
                          IF merged = <<>> THEN <<df>>
                          ELSE <<pd_merge_outer(merged[1], df)>>)
           ELSE MergeFrom(df_list, i + 1, merged)

\* Year is an integer in every adapter's table, so astype(int) changes nothing.
merge_all_data(df_list) ==
  LET merged == MergeFrom(df_list, 1, <<>>)
  IN  IF merged = <<>> \/ Len(merged[1].rows) = 0 THEN EmptyDF
      ELSE DataFrame(merged[1].columns, SortByKey(merged[1].rows))

----------------------------------------------------------------------------
(* Temporal interpolator: lines 766-804 *)

Min(S) == CHOOSE x \in S : \A y \in S : x <= y

Max(S) == CHOOSE x \in S : \A y \in S : x >= y

\* Series.interpolate(method='linear'), limit_direction left at its default
\* 'forward': a missing value before the first known one stays missing.
interpolate_linear_forward(series) ==
  LET known == {q \in 1..Len(series) : ~isna(series[q])}
      At(p) ==
        LET before == {q \in known : q < p}
            after  == {q \in known : q > p}
        IN  IF p \in known THEN series[p]
            ELSE IF before # {} /\ after # {}
            THEN LET a == Max(before)
                     b == Min(after)
                 IN  RAdd(series[a],
                          RDivInt(RMulInt(RSub(series[b], series[a]), p - a), b - a))
            ELSE IF before # {} THEN series[Max(before)]
            ELSE nan
  IN  [p \in 1..Len(series) |-> At(p)]

\* Series.interpolate(method='linear', limit_direction='both'): the values are
\* taken as equally spaced by position.  A missing value between two known ones
\* lies on the line through them; one before the first or after the last known
\* value takes that value; a series with no known value is left as it is.
interpolate_linear_both(series) ==
  LET known == {q \in 1..Len(series) : ~isna(series[q])}
      At(p) ==
        LET before == {q \in known : q < p}
            after  == {q \in known : q > p}
        IN  IF p \in known THEN series[p]
            ELSE IF before # {} /\ after # {}
            THEN LET a == Max(before)
                     b == Min(after)
                 IN  RAdd(series[a],
                          RDivInt(RMulInt(RSub(series[b], series[a]), p - a), b - a))
            ELSE IF before # {} THEN series[Max(before)]
            ELSE IF after # {} THEN series[Min(after)]
            ELSE nan
  IN  [p \in 1..Len(series) |-> At(p)]

\* select_dtypes(include=[np.number]): a column read with a text in it has
\* dtype object.
IsNumericCol(df, col) == \A i \in 1..Len(df.rows) : ~IsText(df.rows[i].f[col])

\* The interpolation of one country in which a column without a value of the
\* country takes the first value the column has in the whole table.
interpolate_country_pooled(df, country) ==
  LET IsCountry(r) == r.Country = country
      df_country == SelectSeq(df.rows, IsCountry)
      years    == {df_country[i].Year : i \in 1..Len(df_country)}
      fcols    == Range(FeatureCols(df))
      RowsOfYear(y) ==
        LET InYear(r) == r.Year = y
            found == SelectSeq(df_country, InYear)
        IN  IF found # <<>> THEN found
            ELSE <<[Country |-> country, Year |-> y, f |-> [c \in fcols |-> NaNCell]]>>
      full == Flatten([k \in 1..(Max(years) - Min(years) + 1) |-> RowsOfYear(Min(years) + k - 1)])
      Pooled(col) ==
        LET known == {i \in 1..Len(df.rows) : ~isna(df.rows[i].f[col].v)}
        IN  IF known = {} THEN nan ELSE df.rows[Min(known)].f[col].v
      Filled(col) ==
        LET own == interpolate_linear_both([p \in 1..Len(full) |-> full[p].f[col].v])
        IN  [p \in 1..Len(full) |-> IF isna(own[p]) THEN Pooled(col) ELSE own[p]]
  IN  [p \in 1..Len(full) |->
        [Country |-> country, Year |-> full[p].Year,
         f |-> [c \in fcols |->
                 IF IsNumericCol(df, c) THEN NumCell(Filled(c)[p]) ELSE full[p].f[c]]]]

\* Lines 773-795 for one country with at least one row.
interpolate_country(df, country) ==
  LET IsCountry(r) == r.Country = country
      df_country == SelectSeq(df.rows, IsCountry)
      years    == {df_country[i].Year : i \in 1..Len(df_country)}
      min_year == Min(years)
      max_year == Max(years)
      fcols    == Range(FeatureCols(df))
      \* pd.merge(full_years, df_country, on='Year', how='left')
      RowsOfYear(y) ==
        LET InYear(r) == r.Year = y
            found == SelectSeq(df_country, InYear)
        IN  IF found # <<>> THEN found
            ELSE <<[Country |-> country, Year |-> y, f |-> [c \in fcols |-> NaNCell]]>>
      full == Flatten([k \in 1..(max_year - min_year + 1) |-> RowsOfYear(min_year + k - 1)])
      Filled(col) == interpolate_linear_both([p \in 1..Len(full) |-> full[p].f[col].v])
  IN  [p \in 1..Len(full) |->
        [Country |-> country, Year |-> full[p].Year,
         f |-> [c \in fcols |->
                 IF IsNumericCol(df, c) THEN NumCell(Filled(c)[p]) ELSE full[p].f[c]]]]

\* The columns after pd.merge(full_years, df_country, on='Year'): Year first.
InterpolatedColumns(df) ==
  LET NotYear(c) == c # Col_Year
  IN  <<Col_Year>> \o SelectSeq(df.columns, NotYear)

interpolate_missing_years(df) ==
  LET Present(country) == \E i \in 1..Len(df.rows) : df.rows[i].Country = country
      present == SelectSeq(TARGET_COUNTRIES, Present)
      df_interpolated_list == [i \in 1..Len(present) |-> interpolate_country(df, present[i])]
  IN  IF df_interpolated_list = <<>> THEN df
      ELSE DataFrame(InterpolatedColumns(df), Flatten(df_interpolated_list))

----------------------------------------------------------------------------
(* Cross-feature imputer: lines 806-830 *)

\* The keywords of the test of line 817.
ImputeKeywords ==
  [business |-> <<"b", "u", "s", "i", "n", "e", "s", "s">>,
   ai |-> <<"a", "i">>]

\* The fill of lines 822-824 applied to the rows of every target country.
ImputedEverywhere == TARGET_COUNTRIES

\* The countries of the loop of line 822.
ImputedCountries == <<China, India, UnitedArabEmirates>>

IsBusinessCol(col) == Contains(Lower(col), ImputeKeywords.business) /\ Contains(Lower(col), ImputeKeywords.ai)

\* The search of the business-AI column that passes over the column the
\* imputer itself creates.
business_col_given(df) ==
  LET Given(col) == IsBusinessCol(col) /\ col # Col_Business_AI_Adoption
      found == SelectSeq(df.columns, Given)
  IN  IF found = <<>> THEN <<>> ELSE <<found[1]>>

\* Lines 815-819: the first column with both keywords, <<>> for None.
business_col_of(df) ==
  LET found == SelectSeq(df.columns, IsBusinessCol)
  IN  IF found = <<>> THEN <<>> ELSE <<found[1]>>

\* The imputer with the new column filled for the three countries only.
impute_scoped_only(df) ==
  IF ~InList(Col_Commercial_Score, df.columns) THEN df
  ELSE LET Add(r) ==
             [r EXCEPT !.f = [c \in DOMAIN r.f \cup {Col_Business_AI_Adoption} |->
                                IF c # Col_Business_AI_Adoption THEN r.f[c]
                                ELSE IF InList(r.Country, ImputedCountries)
                                THEN r.f[Col_Commercial_Score]
                                ELSE NaNCell]]
       IN  DataFrame(Append(df.columns, Col_Business_AI_Adoption),
                     [i \in 1..Len(df.rows) |-> Add(df.rows[i])])

\* The imputer that creates the new column, with no value in it, also for a
\* table without a Commercial_Score column.
impute_create_always(df) ==
  LET Add(r) ==
        [r EXCEPT !.f = [c \in DOMAIN r.f \cup {Col_Business_AI_Adoption} |->
                           IF c = Col_Business_AI_Adoption
                           THEN IF InList(Col_Commercial_Score, df.columns)
                                THEN r.f[Col_Commercial_Score] ELSE NaNCell
                           ELSE r.f[c]]]
  IN  DataFrame(Append(df.columns, Col_Business_AI_Adoption),
                [i \in 1..Len(df.rows) |-> Add(df.rows[i])])

impute_with_commercial_score(df) ==
  IF ~InList(Col_Commercial_Score, df.columns) THEN df
  ELSE LET business_col == business_col_of(df)
       IN  IF business_col # <<>>
           THEN LET col == business_col[1]
                    Fill(r) ==
                      IF InList(r.Country, ImputedCountries) /\ CellIsNa(r.f[col])
                      THEN [r EXCEPT !.f[col] = r.f[Col_Commercial_Score]]
                      ELSE r
                IN  DataFrame(df.columns, [i \in 1..Len(df.rows) |-> Fill(df.rows[i])])
           ELSE LET Add(r) ==
                      [r EXCEPT !.f = [c \in DOMAIN r.f \cup {Col_Business_AI_Adoption} |->
                                         IF c = Col_Business_AI_Adoption
                                         THEN r.f[Col_Commercial_Score]
                                         ELSE r.f[c]]]
                IN  DataFrame(Append(df.columns, Col_Business_AI_Adoption),
                              [i \in 1..Len(df.rows) |-> Add(df.rows[i])])

----------------------------------------------------------------------------
(* Source adapters: what they share *)

(***************************************************************************)
(* A source is what an adapter finds on disk: kind "missing" (neither the  *)
(* .csv nor the .xlsx exists), "unreadable" (the load raises inside        *)
(* safe_read_file), or "table" with the raw table `df` that was loaded;    *)
(* `fault` says that a pandas call after the load raises.  A raw table is  *)
(* [columns, rows], each row the sequence of its cells in column order.    *)
(***************************************************************************)
RawTable(columns, rows) == [columns |-> columns, rows |-> rows]

\* What a function body did: returned a table, or raised.
Returned(df) == [raised |-> FALSE, df |-> df]

Raised == [raised |-> TRUE, df |-> EmptyDF]

\* try: <body> except Exception: return <fallback>
\* A body without an except clause: what it raises reaches the caller.
NoExcept(body, fallback) == body

TryExcept(body, fallback) == IF body.raised THEN Returned(fallback) ELSE body

\* safe_read_file (lines 113-137): the table, or None (<<>>) when reading raised.
safe_read_file(src) == IF src.kind = "unreadable" THEN <<>> ELSE <<src.df>>

ColPos(columns, col) == CHOOSE i \in 1..Len(columns) : columns[i] = col

\* A role found by column detection: <<>> is None, <<col>> the column.
HasRole(role) == role # <<>>

\* apply() without the isin() test: every row is kept under its standard name.
apply_standard_names(rows, pos) ==
  LET Applied(row) ==
        LET name == standardize_country_name(CellName(row[pos]))
        IN  [row EXCEPT ![pos] = IF name = None THEN NaNCell ELSE TextCell(name)]
  IN  [i \in 1..Len(rows) |-> Applied(rows[i])]

\* filter_target_countries (lines 107-111) on raw rows whose country cell is
\* at position pos: apply() replaces every cell by its standard name (None is
\* kept as a missing cell), isin() keeps the rows naming a target country.
filter_target_countries(rows, pos) ==
  LET Applied(row) ==
        LET name == standardize_country_name(CellName(row[pos]))
        IN  [row EXCEPT ![pos] = IF name = None THEN NaNCell ELSE TextCell(name)]
      IsTarget(row) == IsText(row[pos]) /\ InList(row[pos].s, TARGET_COUNTRIES)
  IN  SelectSeq([i \in 1..Len(rows) |-> Applied(rows[i])], IsTarget)

\* to_numeric(Year), dropping the rows without a year (lines 237-238)
HasYear(row, pos) == ~isna(to_numeric(row[pos]))

\* astype(int) of the year that is left
YearOf(row, pos) == Trunc(to_numeric(row[pos]))

RECURSIVE RSum(_)
RSum(vals) == IF vals = <<>> THEN Num(0) ELSE RAdd(Head(vals), RSum(Tail(vals)))

NotNa(v) == ~isna(v)

\* mean, sum and max of a group, missing values skipped
MeanSkipNa(vals) ==
  LET valid == SelectSeq(vals, NotNa)
  IN  IF valid = <<>> THEN nan ELSE RDivInt(RSum(valid), Len(valid))

SumSkipNa(vals) == RSum(SelectSeq(vals, NotNa))

MaxSkipNa(vals) ==
  LET valid == SelectSeq(vals, NotNa)
  IN  IF valid = <<>> THEN nan
      ELSE valid[CHOOSE i \in 1..Len(valid) : \A j \in 1..Len(valid) : ~RLess(valid[i], valid[j])]

\* An aggregation that adds up a group's values, whatever is named.
AggregateSum(aggfunc, vals) == SumSkipNa(vals)

\* An aggregation that takes the first value a group gives, whatever is named.
AggregateFirst(aggfunc, vals) ==
  IF SelectSeq(vals, NotNa) = <<>> THEN nan ELSE SelectSeq(vals, NotNa)[1]

\* The aggregation a groupby or pivot_table step names, over a group's values.
Aggregate(aggfunc, vals) ==
  CASE aggfunc = "mean" -> MeanSkipNa(vals)
    [] aggfunc = "sum"  -> SumSkipNa(vals)
    [] aggfunc = "max"  -> MaxSkipNa(vals)

\* pivot_table(index=['Country', 'Year'], columns=<feature>, values='Value') of
\* long records [Country, Year, Feature, Value], then reset_index: the groups
\* whose aggregate is missing are dropped, the features left become the columns
\* in the order `ordered` (their sorted order), the keys left the rows in
\* ascending order.
Pivot(long, ordered, aggfunc) ==
  LET ValuesOf(key, feature) ==
        LET InGroup(r) == Key(r) = key /\ r.Feature = feature
            group == SelectSeq(long, InGroup)
        IN  [i \in 1..Len(group) |-> group[i].Value]
      Cell(key, feature) == Aggregate(aggfunc, ValuesOf(key, feature))
      allKeys == {Key(long[i]) : i \in 1..Len(long)}
      Present(feature) == \E key \in allKeys : ~isna(Cell(key, feature))
      features == SelectSeq(ordered, Present)
      keys == SortedKeys({key \in allKeys : \E i \in 1..Len(features) :
                                              ~isna(Cell(key, features[i]))})
  IN  DataFrame(<<Col_Country, Col_Year>> \o features,
                [i \in 1..Len(keys) |->
                  [Country |-> keys[i][1], Year |-> keys[i][2],
                   f |-> [c \in Range(features) |-> NumCell(Cell(keys[i], c))]]])

----------------------------------------------------------------------------
(* R&D adapter: lines 143-268 *)

\* The keywords and codes of lines 178-215 and 246-247.
MstiKeywords ==
  [REF_AREA |-> <<"R", "E", "F", "_", "A", "R", "E", "A">>,
   COUNTRY |-> <<"C", "O", "U", "N", "T", "R", "Y">>,
   TIME_PERIOD |-> <<"T", "I", "M", "E", "_", "P", "E", "R", "I", "O", "D">>,
   TIME |-> <<"T", "I", "M", "E">>,
   YEAR |-> <<"Y", "E", "A", "R">>,
   MEASURE |-> <<"M", "E", "A", "S", "U", "R", "E">>,
   OBS_VALUE |-> <<"O", "B", "S", "_", "V", "A", "L", "U", "E">>,
   VALUE |-> <<"V", "A", "L", "U", "E">>,
   UNIT_MEASURE |-> <<"U", "N", "I", "T", "_", "M", "E", "A", "S", "U", "R", "E">>,
   UNIT |-> <<"U", "N", "I", "T">>,
   USD_PPP |-> <<"U", "S", "D", "_", "P", "P", "P">>,
   FTE |-> <<"F", "T", "E">>,
   HC |-> <<"H", "C">>,
   G |-> <<"G">>,
   T_RS |-> <<"T", "_", "R", "S">>]

MstiColumns == <<Col_Country, Col_Year, Col_GERD_Million_USD, Col_Researchers>>

NoMstiRoles ==
  [ref_area_col |-> <<>>, time_col |-> <<>>, measure_col |-> <<>>,
   value_col |-> <<>>, unit_col |-> <<>>]

\* The loop of lines 176-187 from column i on: a column takes the first branch
\* of the if/elif chain whose test it passes, and is assigned to that role
\* whether or not the role was already filled.
RECURSIVE MstiRoles(_, _, _)
MstiRoles(columns, i, roles) ==
  IF i > Len(columns) THEN roles
  ELSE LET col == columns[i]
           col_str == Upper(col)
       IN  MstiRoles(columns, i + 1,
             IF Contains(col_str, MstiKeywords.REF_AREA) \/ col_str = MstiKeywords.COUNTRY
             THEN [roles EXCEPT !.ref_area_col = <<col>>]
             ELSE IF Contains(col_str, MstiKeywords.TIME_PERIOD) \/ Contains(col_str, MstiKeywords.TIME)
                     \/ col_str = MstiKeywords.YEAR
             THEN [roles EXCEPT !.time_col = <<col>>]
             ELSE IF Contains(col_str, MstiKeywords.MEASURE)
             THEN [roles EXCEPT !.measure_col = <<col>>]
             ELSE IF Contains(col_str, MstiKeywords.OBS_VALUE) \/ col_str = MstiKeywords.VALUE
             THEN [roles EXCEPT !.value_col = <<col>>]
             ELSE IF Contains(col_str, MstiKeywords.UNIT_MEASURE) \/ Contains(col_str, MstiKeywords.UNIT)
             THEN [roles EXCEPT !.unit_col = <<col>>]
             ELSE roles)

\* astype(str) of a cell of a text column
AsStr(c) == IF IsText(c) THEN c.s ELSE Kw_nan

\* Lines 213-215: the unit contains USD_PPP, FTE or HC, in any case.
UnitPasses(c) ==
  LET unit == Lower(AsStr(c))
  IN  \/ Contains(unit, Lower(MstiKeywords.USD_PPP))
      \/ Contains(unit, Lower(MstiKeywords.FTE))
      \/ Contains(unit, Lower(MstiKeywords.HC))

\* Lines 245-248: Measure mapped to the feature name, <<>> where unmapped.
MstiFeature(c) ==
  IF IsText(c) /\ c.s = MstiKeywords.G THEN <<Col_GERD_Million_USD>>
  ELSE IF IsText(c) /\ c.s = MstiKeywords.T_RS THEN <<Col_Researchers>>
  ELSE <<>>

\* Lines 199-204: the rows whose measure is G or T_RS, all rows when no
\* measure column was found.
MstiMeasureRows(df, roles) ==
  LET IsRD(row) ==
        InList(AsStr(row[ColPos(df.columns, roles.measure_col[1])]), <<MstiKeywords.G, MstiKeywords.T_RS>>)
  IN  IF HasRole(roles.measure_col) THEN SelectSeq(df.rows, IsRD) ELSE df.rows

\* Lines 211-216: the rows whose unit passes, all rows when no unit column was
\* found.
MstiUnitRows(df, roles, df_rd) ==
  LET UnitOK(row) == UnitPasses(row[ColPos(df.columns, roles.unit_col[1])])
  IN  IF HasRole(roles.unit_col) THEN SelectSeq(df_rd, UnitOK) ELSE df_rd

\* Lines 227-251: the long records of the rows that have a year and a feature.
MstiLong(df, roles, df_rd) ==
  LET Pos(role) == ColPos(df.columns, role[1])
      FeatureOf(row) ==
        IF HasRole(roles.measure_col) THEN MstiFeature(row[Pos(roles.measure_col)])
        ELSE <<Col_GERD_Million_USD>>
      Kept(row) == HasYear(row, Pos(roles.time_col)) /\ FeatureOf(row) # <<>>
      Record(row) ==
        [Country |-> row[Pos(roles.ref_area_col)].s,
         Year    |-> YearOf(row, Pos(roles.time_col)),
         Feature |-> FeatureOf(row)[1],
         Value   |-> to_numeric(row[Pos(roles.value_col)])]
  IN  [i \in 1..Len(SelectSeq(df_rd, Kept)) |-> Record(SelectSeq(df_rd, Kept)[i])]

\* Lines 219-262: from the country filter on.
MstiFromCountries(df, roles, df_rd) ==
  IF Len(df_rd) = 0 THEN Returned(DataFrame(MstiColumns, <<>>))
  ELSE Returned(Pivot(MstiLong(df, roles, df_rd),
                      <<Col_GERD_Million_USD, Col_Researchers>>, "mean"))

\* Lines 206-220: from the check of the measure filter on.
MstiFromMeasures(df, roles, df_rd) ==
  IF Len(df_rd) = 0 THEN Returned(DataFrame(MstiColumns, <<>>))
  ELSE MstiFromCountries(df, roles,
         filter_target_countries(MstiUnitRows(df, roles, df_rd),
                                 ColPos(df.columns, roles.ref_area_col[1])))

\* Lines 191-204: from the check of the required roles on.
MstiFromRoles(df, roles) ==
  IF ~(HasRole(roles.ref_area_col) /\ HasRole(roles.time_col) /\ HasRole(roles.value_col))
  THEN Returned(DataFrame(MstiColumns, <<>>))
  ELSE MstiFromMeasures(df, roles, MstiMeasureRows(df, roles))

\* Lines 160-262, the try block: loaded is what safe_read_file returned.
process_oecd_msti_try(src, loaded) ==
  IF loaded = <<>> THEN Returned(DataFrame(MstiColumns, <<>>))
  ELSE IF src.fault THEN Raised
  ELSE MstiFromRoles(loaded[1], MstiRoles(loaded[1].columns, 1, NoMstiRoles))

process_oecd_msti(src) ==
  IF src.kind = "missing" THEN Returned(DataFrame(MstiColumns, <<>>))
  ELSE TryExcept(process_oecd_msti_try(src, safe_read_file(src)),
                 DataFrame(MstiColumns, <<>>))

----------------------------------------------------------------------------
(* Electricity adapter: lines 274-361 *)

\* The keywords of lines 300-313.
EmberKeywords ==
  [country |-> <<"c", "o", "u", "n", "t", "r", "y">>,
   zh_country |-> <<"U+56FD", "U+5BB6">>,
   area |-> <<"a", "r", "e", "a">>,
   entity |-> <<"e", "n", "t", "i", "t", "y">>,
   year |-> <<"y", "e", "a", "r">>,
   zh_year |-> <<"U+5E74">>,
   total |-> <<"t", "o", "t", "a", "l">>,
   generation |-> <<"g", "e", "n", "e", "r", "a", "t", "i", "o", "n">>,
   generat |-> <<"g", "e", "n", "e", "r", "a", "t">>,
   zh_generation |-> <<"U+53D1", "U+7535">>,
   renewable |-> <<"r", "e", "n", "e", "w", "a", "b", "l", "e">>,
   zh_renewable |-> <<"U+53EF", "U+518D", "U+751F">>,
   clean |-> <<"c", "l", "e", "a", "n">>]

EmberColumns ==
  <<Col_Country, Col_Year, Col_Total_Generation_TWh, Col_Renewables_Generation_TWh>>

\* The loop of lines 298-303 from column i on: a role keeps its first column.
RECURSIVE EmberRoles(_, _, _)
EmberRoles(columns, i, roles) ==
  IF i > Len(columns) THEN roles
  ELSE LET col == columns[i]
           col_lower == Lower(col)
       IN  EmberRoles(columns, i + 1,
             IF roles.country_col = <<>>
                /\ (\/ Contains(col_lower, EmberKeywords.country) \/ Contains(col_lower, EmberKeywords.zh_country)
                    \/ Contains(col_lower, EmberKeywords.area) \/ Contains(col_lower, EmberKeywords.entity))
             THEN [roles EXCEPT !.country_col = <<col>>]
             ELSE IF roles.year_col = <<>>
                     /\ (Contains(col_lower, EmberKeywords.year) \/ Contains(col_lower, EmberKeywords.zh_year))
             THEN [roles EXCEPT !.year_col = <<col>>]
             ELSE roles)

\* Lines 311 and 313: the tests of the two generation columns.
IsTotalGeneration(col) ==
  LET col_str == Lower(col)
  IN  /\ Contains(col_str, EmberKeywords.total)
      /\ (\/ Contains(col_str, EmberKeywords.generation) \/ Contains(col_str, EmberKeywords.generat)
          \/ Contains(col_str, EmberKeywords.zh_generation))

IsRenewablesGeneration(col) ==
  LET col_str == Lower(col)
  IN  /\ ~IsTotalGeneration(col)
      /\ (\/ Contains(col_str, EmberKeywords.renewable) \/ Contains(col_str, EmberKeywords.zh_renewable)
          \/ Contains(col_str, EmberKeywords.clean))
      /\ (Contains(col_str, EmberKeywords.generation) \/ Contains(col_str, EmberKeywords.zh_generation))

\* Lines 332-355: the columns kept and renamed, the rows that have a year.
\* sources[k] is the raw column of features[k].
EmberResult(df, roles, features, sources, filtered) ==
  LET Pos(col) == ColPos(df.columns, col)
      WithYear(row) == HasYear(row, Pos(roles.year_col[1]))
      Source(feature) == sources[ColPos(features, feature)]
      Record(row) ==
        [Country |-> row[Pos(roles.country_col[1])].s,
         Year    |-> YearOf(row, Pos(roles.year_col[1])),
         f |-> [c \in Range(features) |-> row[Pos(Source(c))]]]
  IN  DataFrame(<<Col_Country, Col_Year>> \o features,
                [i \in 1..Len(SelectSeq(filtered, WithYear)) |->
                  Record(SelectSeq(filtered, WithYear)[i])])

\* Lines 327-355: from the check of the country filter on.
EmberFromCountries(df, roles, generation_cols, renewables_cols, filtered) ==
  IF Len(filtered) = 0 THEN Returned(DataFrame(EmberColumns, <<>>))
  ELSE Returned(EmberResult(df, roles,
         (IF generation_cols # <<>> THEN <<Col_Total_Generation_TWh>> ELSE <<>>)
           \o (IF renewables_cols # <<>> THEN <<Col_Renewables_Generation_TWh>> ELSE <<>>),
         (IF generation_cols # <<>> THEN <<generation_cols[1]>> ELSE <<>>)
           \o (IF renewables_cols # <<>> THEN <<renewables_cols[1]>> ELSE <<>>),
         filtered))

\* Lines 305-325: from the search of the generation columns on.
EmberFromRoles(df, roles) ==
  IF roles.country_col = <<>> \/ roles.year_col = <<>>
  THEN Returned(DataFrame(EmberColumns, <<>>))
  ELSE EmberFromCountries(df, roles,
         SelectSeq(df.columns, IsTotalGeneration),
         SelectSeq(df.columns, IsRenewablesGeneration),
         filter_target_countries(df.rows, ColPos(df.columns, roles.country_col[1])))

\* Lines 287-355, the try block: loaded is what safe_read_file returned.
process_ember_electricity_try(src, loaded) ==
  IF loaded = <<>> THEN Returned(DataFrame(EmberColumns, <<>>))
  ELSE IF src.fault THEN Raised
  ELSE EmberFromRoles(loaded[1],
         EmberRoles(loaded[1].columns, 1, [country_col |-> <<>>, year_col |-> <<>>]))

process_ember_electricity(src) ==
  IF src.kind = "missing" THEN Returned(DataFrame(EmberColumns, <<>>))
  ELSE TryExcept(process_ember_electricity_try(src, safe_read_file(src)),
                 DataFrame(EmberColumns, <<>>))

----------------------------------------------------------------------------
(* Broadband adapter: lines 363-444 *)

\* The keywords of lines 390-397.
BroadbandKeywords ==
  [REF_AREA |-> <<"R", "E", "F", "_", "A", "R", "E", "A">>,
   COUNTRY |-> <<"C", "O", "U", "N", "T", "R", "Y">>,
   TIME_PERIOD |-> <<"T", "I", "M", "E", "_", "P", "E", "R", "I", "O", "D">>,
   TIME |-> <<"T", "I", "M", "E">>,
   YEAR |-> <<"Y", "E", "A", "R">>,
   OBS_VALUE |-> <<"O", "B", "S", "_", "V", "A", "L", "U", "E">>,
   VALUE |-> <<"V", "A", "L", "U", "E">>,
   MEASURE |-> <<"M", "E", "A", "S", "U", "R", "E">>]

BroadbandColumns == <<Col_Country, Col_Year, Col_Fibre_Percentage>>

NoBroadbandRoles ==
  [country_col |-> <<>>, year_col |-> <<>>, value_col |-> <<>>, measure_col |-> <<>>]

\* The loop of lines 388-397 from column i on; as in the R&D adapter a column
\* that passes a test is assigned whether or not the role was already filled.
RECURSIVE BroadbandRoles(_, _, _)
BroadbandRoles(columns, i, roles) ==
  IF i > Len(columns) THEN roles
  ELSE LET col == columns[i]
           col_str == Upper(col)
       IN  BroadbandRoles(columns, i + 1,
             IF Contains(col_str, BroadbandKeywords.REF_AREA) \/ col_str = BroadbandKeywords.COUNTRY
             THEN [roles EXCEPT !.country_col = <<col>>]
             ELSE IF Contains(col_str, BroadbandKeywords.TIME_PERIOD) \/ Contains(col_str, BroadbandKeywords.TIME)
                     \/ col_str = BroadbandKeywords.YEAR
             THEN [roles EXCEPT !.year_col = <<col>>]
             ELSE IF Contains(col_str, BroadbandKeywords.OBS_VALUE) \/ col_str = BroadbandKeywords.VALUE
             THEN [roles EXCEPT !.value_col = <<col>>]
             ELSE IF Contains(col_str, BroadbandKeywords.MEASURE)
             THEN [roles EXCEPT !.measure_col = <<col>>]
             ELSE roles)

\* The dtype of a raw column is object when a text was read into it.
IsObjectCol(df, pos) == \E i \in 1..Len(df.rows) : IsText(df.rows[i][pos])

\* groupby(['Country', 'Year'])[col].<agg>().reset_index() of records
\* [Country, Year, Value]: one row per key, in ascending key order.
GroupByKey(records, col, aggfunc) ==
  LET keys == SortedKeys({Key(records[i]) : i \in 1..Len(records)})
      ValuesOf(key) ==
        LET InGroup(r) == Key(r) = key
            group == SelectSeq(records, InGroup)
        IN  [i \in 1..Len(group) |-> group[i].Value]
  IN  [i \in 1..Len(keys) |->
        [Country |-> keys[i][1], Year |-> keys[i][2],
         f |-> [c \in {col} |-> NumCell(Aggregate(aggfunc, ValuesOf(keys[i])))]]]

\* Lines 421-438: the rows that have a year, grouped by country and year.  The
\* mean of a column of dtype object raises.
BroadbandResult(df, roles, df_fibre) ==
  LET Pos(role) == ColPos(df.columns, role[1])
      WithYear(row) == HasYear(row, Pos(roles.year_col))
      Record(row) ==
        [Country |-> row[Pos(roles.country_col)].s,
         Year    |-> YearOf(row, Pos(roles.year_col)),
         Value   |-> row[Pos(roles.value_col)].v]
  IN  DataFrame(BroadbandColumns,
        GroupByKey([i \in 1..Len(SelectSeq(df_fibre, WithYear)) |->
                     Record(SelectSeq(df_fibre, WithYear)[i])],
                   Col_Fibre_Percentage, "mean"))

\* Lines 417-438: from the check of the country filter on.
BroadbandFromCountries(df, roles, df_fibre) ==
  IF Len(df_fibre) = 0 THEN Returned(DataFrame(BroadbandColumns, <<>>))
  ELSE IF IsObjectCol(df, ColPos(df.columns, roles.value_col[1])) THEN Raised
  ELSE Returned(BroadbandResult(df, roles, df_fibre))

\* Lines 401-415: from the check of the required roles on.
BroadbandFromRoles(df, roles) ==
  IF ~(HasRole(roles.country_col) /\ HasRole(roles.year_col) /\ HasRole(roles.value_col))
  THEN Returned(DataFrame(BroadbandColumns, <<>>))
  ELSE IF Len(df.rows) = 0 THEN Returned(DataFrame(BroadbandColumns, <<>>))
  ELSE BroadbandFromCountries(df, roles,
         filter_target_countries(df.rows, ColPos(df.columns, roles.country_col[1])))

\* Lines 376-438, the try block: loaded is what safe_read_file returned.
process_oecd_broadband_try(src, loaded) ==
  IF loaded = <<>> THEN Returned(DataFrame(BroadbandColumns, <<>>))
  ELSE IF src.fault THEN Raised
  ELSE BroadbandFromRoles(loaded[1],
         BroadbandRoles(loaded[1].columns, 1, NoBroadbandRoles))

process_oecd_broadband(src) ==
  IF src.kind = "missing" THEN Returned(DataFrame(BroadbandColumns, <<>>))
  ELSE TryExcept(process_oecd_broadband_try(src, safe_read_file(src)),
                 DataFrame(BroadbandColumns, <<>>))

----------------------------------------------------------------------------
(* Compute-capacity adapter: lines 446-523 *)

\* The keywords of lines 473-478.
Top500Keywords ==
  [country |-> <<"c", "o", "u", "n", "t", "r", "y">>,
   zh_country |-> <<"U+56FD", "U+5BB6">>,
   year |-> <<"y", "e", "a", "r">>,
   zh_year |-> <<"U+5E74">>,
   rmax |-> <<"r", "m", "a", "x">>,
   performance |-> <<"p", "e", "r", "f", "o", "r", "m", "a", "n", "c", "e">>,
   zh_performance |-> <<"U+6027", "U+80FD">>]

Top500Columns == <<Col_Country, Col_Year, Col_Compute_Power_Rmax>>

\* Line 511: the year given to a table without a year column.
Top500FallbackYear == 2024

\* The loop of lines 471-478 from column i on: a role keeps its first column.
RECURSIVE Top500Roles(_, _, _)
Top500Roles(columns, i, roles) ==
  IF i > Len(columns) THEN roles
  ELSE LET col == columns[i]
           col_lower == Lower(col)
       IN  Top500Roles(columns, i + 1,
             IF roles.country_col = <<>>
                /\ (Contains(col_lower, Top500Keywords.country) \/ Contains(col_lower, Top500Keywords.zh_country))
             THEN [roles EXCEPT !.country_col = <<col>>]
             ELSE IF roles.year_col = <<>>
                     /\ (Contains(col_lower, Top500Keywords.year) \/ Contains(col_lower, Top500Keywords.zh_year))
             THEN [roles EXCEPT !.year_col = <<col>>]
             ELSE IF roles.rmax_col = <<>>
                     /\ (\/ Contains(col_lower, Top500Keywords.rmax) \/ Contains(col_lower, Top500Keywords.performance)
                         \/ Contains(col_lower, Top500Keywords.zh_performance))
             THEN [roles EXCEPT !.rmax_col = <<col>>]
             ELSE roles)

\* Lines 498-503: groupby([country_col, 'Year'])[rmax_col].sum() on the float
\* Year of line 496, one row per country and float year in ascending order,
\* and only then Year.astype(int).
RECURSIVE SumByFloatYear(_, _)
SumByFloatYear(records, keys) ==
  IF keys = {} THEN <<>>
  ELSE LET least == CHOOSE k \in keys : \A o \in keys \ {k} :
                      StrLess(k[1], o[1]) \/ (k[1] = o[1] /\ RLess(k[2], o[2]))
           InGroup(r) == r.Country = least[1] /\ r.Year = least[2]
           group == SelectSeq(records, InGroup)
       IN  <<[Country |-> least[1], Year |-> Trunc(least[2]),
              f |-> [c \in {Col_Compute_Power_Rmax} |->
                      NumCell(Aggregate("sum", [i \in 1..Len(group) |-> group[i].Value]))]]>>
             \o SumByFloatYear(records, keys \ {least})

\* Lines 494-511: Rmax summed per country and year; without a year column,
\* per country, the year column added last.
Top500Result(df, roles, filtered) ==
  LET Pos(role) == ColPos(df.columns, role[1])
      \* groupby drops the rows whose Year is missing
      WithYear(row) == HasYear(row, Pos(roles.year_col))
      dated == SelectSeq(filtered, WithYear)
      ByYear(row) ==
        [Country |-> row[Pos(roles.country_col)].s,
         Year    |-> to_numeric(row[Pos(roles.year_col)]),
         Value   |-> to_numeric(row[Pos(roles.rmax_col)])]
      Undated(row) ==
        [Country |-> row[Pos(roles.country_col)].s,
         Year    |-> Top500FallbackYear,
         Value   |-> to_numeric(row[Pos(roles.rmax_col)])]
  IN  IF HasRole(roles.rmax_col) /\ HasRole(roles.year_col)
      THEN DataFrame(Top500Columns,
             SumByFloatYear([i \in 1..Len(dated) |-> ByYear(dated[i])],
                            {<<ByYear(dated[i]).Country, ByYear(dated[i]).Year>> :
                               i \in 1..Len(dated)}))
      ELSE IF HasRole(roles.rmax_col)
      THEN DataFrame(<<Col_Country, Col_Compute_Power_Rmax, Col_Year>>,
             GroupByKey([i \in 1..Len(filtered) |-> Undated(filtered[i])],
                        Col_Compute_Power_Rmax, "sum"))
      ELSE DataFrame(Top500Columns, <<>>)

\* Lines 491-517: from the check of the country filter on.
Top500FromCountries(df, roles, filtered) ==
  IF Len(filtered) = 0 THEN Returned(DataFrame(Top500Columns, <<>>))
  ELSE Returned(Top500Result(df, roles, filtered))

\* Lines 482-489: from the check of the country role on.
Top500FromRoles(df, roles) ==
  IF ~HasRole(roles.country_col) THEN Returned(DataFrame(Top500Columns, <<>>))
  ELSE Top500FromCountries(df, roles,
         filter_target_countries(df.rows, ColPos(df.columns, roles.country_col[1])))

\* Lines 459-517, the try block: loaded is what safe_read_file returned.
process_top500_compute_try(src, loaded) ==
  IF loaded = <<>> THEN Returned(DataFrame(Top500Columns, <<>>))
  ELSE IF src.fault THEN Raised
  ELSE Top500FromRoles(loaded[1],
         Top500Roles(loaded[1].columns, 1,
                     [country_col |-> <<>>, year_col |-> <<>>, rmax_col |-> <<>>]))

process_top500_compute(src) ==
  IF src.kind = "missing" THEN Returned(DataFrame(Top500Columns, <<>>))
  ELSE TryExcept(process_top500_compute_try(src, safe_read_file(src)),
                 DataFrame(Top500Columns, <<>>))

----------------------------------------------------------------------------
(* AI-index adapter: lines 529-642 *)

\* The file suffix of line 545 and the keywords of lines 611-618.
StanfordKeywords ==
  [patent |-> <<"p", "a", "t", "e", "n", "t">>,
   publication |-> <<"p", "u", "b", "l", "i", "c", "a", "t", "i", "o", "n">>,
   paper |-> <<"p", "a", "p", "e", "r">>,
   citation |-> <<"c", "i", "t", "a", "t", "i", "o", "n">>,
   model |-> <<"m", "o", "d", "e", "l">>,
   dot_csv |-> <<".", "c", "s", "v">>]

StanfordColumns == <<Col_Country, Col_Year>>

\* Line 557: the years a column name may denote.
FirstIndexYear == 2010

LastIndexYear == 2024

\* Line 564: how many values of the first column are looked at.
CountryProbeRows == 20

EndsWith(s, suffix) ==
  Len(s) >= Len(suffix) /\ SubSeq(s, Len(s) - Len(suffix) + 1, Len(s)) = suffix

\* classify_feature (lines 609-620)
classify_feature(filename) ==
  LET filename_lower == Lower(filename)
  IN  IF Contains(filename_lower, StanfordKeywords.patent) THEN Col_AI_Patents
      ELSE IF Contains(filename_lower, StanfordKeywords.publication) \/ Contains(filename_lower, StanfordKeywords.paper)
      THEN Col_AI_Publications
      ELSE IF Contains(filename_lower, StanfordKeywords.citation) THEN Col_AI_Citations
      ELSE IF Contains(filename_lower, StanfordKeywords.model) THEN Col_AI_Models
      ELSE Col_AI_Metric

\* Line 557
IsYearCol(col) ==
  IsDigitString(col) /\ FirstIndexYear <= ParseInt(col) /\ ParseInt(col) <= LastIndexYear

\* Lines 551-593 for one file: the records [Country, Year, Value, Source_File]
\* it appends to all_data.  A file that cannot be read, has no row, or is not
\* relevant appends nothing.
StanfordFileRecords(file) ==
  LET df == file.df
      year_cols == SelectSeq(df.columns, IsYearCol)
      probed == SubSeq(df.rows, 1, IF Len(df.rows) < CountryProbeRows
                                   THEN Len(df.rows) ELSE CountryProbeRows)
      has_country_in_rows ==
        /\ Len(df.columns) > 0
        /\ \E i \in 1..Len(probed) :
             InList(standardize_country_name(AsStr(probed[i][1])), TARGET_COUNTRIES)
      \* df.melt: one record per year column and row, year columns outermost
      Melted(col) ==
        [i \in 1..Len(df.rows) |->
          [Country     |-> standardize_country_name(CellName(df.rows[i][1])),
           Year        |-> ParseInt(col),
           Value       |-> to_numeric(df.rows[i][ColPos(df.columns, col)]),
           Source_File |-> file.name]]
      df_long == Flatten([k \in 1..Len(year_cols) |-> Melted(year_cols[k])])
      IsTarget(r) == InList(r.Country, TARGET_COUNTRIES)
  IN  IF ~file.readable \/ Len(df.rows) = 0 THEN <<>>
      ELSE IF has_country_in_rows /\ year_cols # <<>> THEN SelectSeq(df_long, IsTarget)
      ELSE <<>>

\* The feature names in the order pivot_table gives its columns (sorted).
StanfordFeatures ==
  <<Col_AI_Citations, Col_AI_Metric, Col_AI_Models, Col_AI_Patents, Col_AI_Publications>>

\* Lines 595-631: the records of all files combined, the feature of a record
\* given by its file, and the largest value per country, year and feature.
StanfordCombined(all_data) ==
  IF all_data = <<>> THEN Returned(DataFrame(StanfordColumns, <<>>))
  ELSE Returned(Pivot([i \in 1..Len(all_data) |->
                        [Country |-> all_data[i].Country, Year |-> all_data[i].Year,
                         Feature |-> classify_feature(all_data[i].Source_File),
                         Value   |-> all_data[i].Value]],
                      StanfordFeatures, "max"))

\* The records of the files from the i-th on, in order.
RECURSIVE StanfordAllData(_, _)
StanfordAllData(csv_files, i) ==
  IF i > Len(csv_files) THEN <<>>
  ELSE StanfordFileRecords(csv_files[i]) \o StanfordAllData(csv_files, i + 1)

\* Lines 542-636, the body of the try block for a folder that exists, its
\* files in the order os.listdir gives them.
process_stanford_ai_index_body(files) ==
  LET IsCsv(file) == EndsWith(file.name, StanfordKeywords.dot_csv)
  IN  StanfordCombined(StanfordAllData(SelectSeq(files, IsCsv), 1))

process_stanford_ai_index(src) ==
  TryExcept(
    IF src.kind = "missing" THEN Returned(DataFrame(StanfordColumns, <<>>))
    ELSE IF src.fault THEN Raised
    ELSE process_stanford_ai_index_body(src.files),
    DataFrame(StanfordColumns, <<>>))

----------------------------------------------------------------------------
(* Composite-index adapter: lines 648-735 *)

\* The keywords of lines 676-683.
TortoiseKeywords ==
  [country |-> <<"c", "o", "u", "n", "t", "r", "y">>,
   zh_country |-> <<"U+56FD", "U+5BB6">>,
   nation |-> <<"n", "a", "t", "i", "o", "n">>,
   year |-> <<"y", "e", "a", "r">>,
   zh_year |-> <<"U+5E74">>,
   government |-> <<"g", "o", "v", "e", "r", "n", "m", "e", "n", "t">>,
   strategy |-> <<"s", "t", "r", "a", "t", "e", "g", "y">>,
   zh_policy |-> <<"U+653F", "U+7B56">>,
   policy |-> <<"p", "o", "l", "i", "c", "y">>,
   commercial |-> <<"c", "o", "m", "m", "e", "r", "c", "i", "a", "l">>,
   zh_commercial |-> <<"U+5546", "U+4E1A">>]

TortoiseColumns == <<Col_Country, Col_Year, Col_Policy_Score, Col_Commercial_Score>>

\* Line 722: the year given to a table without a year column.
TortoiseFallbackYear == 2024

\* The loop of lines 674-683 from column i on: a role keeps its first column.
RECURSIVE TortoiseRoles(_, _, _)
TortoiseRoles(columns, i, roles) ==
  IF i > Len(columns) THEN roles
  ELSE LET col == columns[i]
           col_lower == Lower(col)
       IN  TortoiseRoles(columns, i + 1,
             IF roles.country_col = <<>>
                /\ (\/ Contains(col_lower, TortoiseKeywords.country) \/ Contains(col_lower, TortoiseKeywords.zh_country)
                    \/ Contains(col_lower, TortoiseKeywords.nation))
             THEN [roles EXCEPT !.country_col = <<col>>]
             ELSE IF roles.year_col = <<>>
                     /\ (Contains(col_lower, TortoiseKeywords.year) \/ Contains(col_lower, TortoiseKeywords.zh_year))
             THEN [roles EXCEPT !.year_col = <<col>>]
             ELSE IF roles.policy_col = <<>>
                     /\ (\/ (Contains(col_lower, TortoiseKeywords.government)
                             /\ Contains(col_lower, TortoiseKeywords.strategy))
                         \/ Contains(col_lower, TortoiseKeywords.zh_policy)
                         \/ Contains(col_lower, TortoiseKeywords.policy))
             THEN [roles EXCEPT !.policy_col = <<col>>]
             ELSE IF roles.commercial_col = <<>>
                     /\ (Contains(col_lower, TortoiseKeywords.commercial)
                         \/ Contains(col_lower, TortoiseKeywords.zh_commercial))
             THEN [roles EXCEPT !.commercial_col = <<col>>]
             ELSE roles)

\* Lines 694-722: the columns kept and renamed; with a year column the rows
\* that have a year, without one every row with the fallback year, the year
\* column added last.
TortoiseResult(df, roles, features, filtered) ==
  LET Pos(role) == ColPos(df.columns, role[1])
      WithYear(row) == HasYear(row, Pos(roles.year_col))
      Source(feature) ==
        IF feature = Col_Policy_Score THEN roles.policy_col ELSE roles.commercial_col
      Dated(row) ==
        [Country |-> row[Pos(roles.country_col)].s,
         Year    |-> YearOf(row, Pos(roles.year_col)),
         f |-> [c \in Range(features) |-> row[Pos(Source(c))]]]
      Undated(row) ==
        [Country |-> row[Pos(roles.country_col)].s,
         Year    |-> TortoiseFallbackYear,
         f |-> [c \in Range(features) |-> row[Pos(Source(c))]]]
  IN  IF HasRole(roles.year_col)
      THEN DataFrame(<<Col_Country, Col_Year>> \o features,
             [i \in 1..Len(SelectSeq(filtered, WithYear)) |->
               Dated(SelectSeq(filtered, WithYear)[i])])
      ELSE DataFrame(<<Col_Country>> \o features \o <<Col_Year>>,
             [i \in 1..Len(filtered) |-> Undated(filtered[i])])

\* Lines 690-729: from the check of the country filter on.
TortoiseFromCountries(df, roles, filtered) ==
  IF Len(filtered) = 0 THEN Returned(DataFrame(TortoiseColumns, <<>>))
  ELSE Returned(TortoiseResult(df, roles,
         (IF HasRole(roles.policy_col) THEN <<Col_Policy_Score>> ELSE <<>>)
           \o (IF HasRole(roles.commercial_col) THEN <<Col_Commercial_Score>> ELSE <<>>),
         filtered))

\* Lines 685-688: from the check of the country role on.
TortoiseFromRoles(df, roles) ==
  IF ~HasRole(roles.country_col) THEN Returned(DataFrame(TortoiseColumns, <<>>))
  ELSE TortoiseFromCountries(df, roles,
         filter_target_countries(df.rows, ColPos(df.columns, roles.country_col[1])))

\* Lines 661-729, the try block: loaded is what safe_read_file returned.
process_tortoise_index_try(src, loaded) ==
  IF loaded = <<>> THEN Returned(DataFrame(TortoiseColumns, <<>>))
  ELSE IF src.fault THEN Raised
  ELSE TortoiseFromRoles(loaded[1],
         TortoiseRoles(loaded[1].columns, 1,
                       [country_col |-> <<>>, year_col |-> <<>>, policy_col |-> <<>>,
                        commercial_col |-> <<>>]))

process_tortoise_index(src) ==
  IF src.kind = "missing" THEN Returned(DataFrame(TortoiseColumns, <<>>))
  ELSE TryExcept(process_tortoise_index_try(src, safe_read_file(src)),
                 DataFrame(TortoiseColumns, <<>>))

----------------------------------------------------------------------------
(* main: lines 836-910 *)

\* The adapters in the order main calls them (lines 848-853).
Adapters ==
  <<"process_oecd_msti", "process_ember_electricity", "process_oecd_broadband",
    "process_top500_compute", "process_stanford_ai_index", "process_tortoise_index">>

RunAdapter(adapter, src) ==
  CASE adapter = "process_oecd_msti"         -> process_oecd_msti(src)
    [] adapter = "process_ember_electricity" -> process_ember_electricity(src)
    [] adapter = "process_oecd_broadband"    -> process_oecd_broadband(src)
    [] adapter = "process_top500_compute"    -> process_top500_compute(src)
    [] adapter = "process_stanford_ai_index" -> process_stanford_ai_index(src)
    [] adapter = "process_tortoise_index"    -> process_tortoise_index(src)

\* main without the check of line 881.
GoOnRegardless(merged) == "interpolate_missing_years"

\* main going from the merge straight to the imputer.
SkipInterpolation(merged) ==
  IF Len(merged.rows) = 0 THEN "no_data" ELSE "impute_with_commercial_score"

\* Line 881: main goes on only with a merged table that has rows.
AfterMerge(merged) ==
  IF Len(merged.rows) = 0 THEN "no_data" ELSE "interpolate_missing_years"

\* Lines 901-909: set_index(['Country', 'Year']).sort_index() and to_csv: the
\* key columns lead, the rows are in ascending key order.
Artifact(df) ==
  DataFrame(<<Col_Country, Col_Year>> \o FeatureCols(df), SortByKey(df.rows))

----------------------------------------------------------------------------
(* Raw inputs: column names, file names and cell texts *)

RC_Area == <<"A", "r", "e", "a">>

RC_Year == <<"Y", "e", "a", "r">>

RC_TotalGeneration == <<"T", "o", "t", "a", "l", " ", "G", "e", "n", "e", "r", "a", "t", "i", "o", "n", " ", "(", "T", "W", "h", ")">>

RC_RenewablesGeneration == <<"R", "e", "n", "e", "w", "a", "b", "l", "e", "s", " ", "G", "e", "n", "e", "r", "a", "t", "i", "o", "n", " ", "(", "T", "W", "h", ")">>

RC_Country == <<"C", "o", "u", "n", "t", "r", "y">>

RC_Rmax == <<"R", "m", "a", "x">>

RC_GovernmentStrategy == <<"G", "o", "v", "e", "r", "n", "m", "e", "n", "t", " ", "S", "t", "r", "a", "t", "e", "g", "y">>

RC_Commercial == <<"C", "o", "m", "m", "e", "r", "c", "i", "a", "l">>

RC_Label == <<"L", "a", "b", "e", "l">>

RC_2009 == <<"2", "0", "0", "9">>

RC_2020 == <<"2", "0", "2", "0">>

RC_2021 == <<"2", "0", "2", "1">>

RC_2022 == <<"2", "0", "2", "2">>

File_patents == <<"a", "i", "_", "p", "a", "t", "e", "n", "t", "s", ".", "c", "s", "v">>

File_patents_by_office == <<"p", "a", "t", "e", "n", "t", "s", "_", "b", "y", "_", "o", "f", "f", "i", "c", "e", ".", "c", "s", "v">>

File_publications == <<"p", "u", "b", "l", "i", "c", "a", "t", "i", "o", "n", "s", ".", "c", "s", "v">>

File_notes == <<"n", "o", "t", "e", "s", ".", "t", "x", "t">>

Txt_USA == <<"U", "S", "A">>

Txt_US == <<"U", "S">>

Txt_CHN == <<"C", "H", "N">>

Txt_IND == <<"I", "N", "D">>

Txt_Mars == <<"M", "a", "r", "s">>

Txt_2021 == <<"2", "0", "2", "1">>

Txt_na == <<"n", "/", "a">>

Txt_USD_PPP == <<"U", "S", "D", "_", "P", "P", "P">>

Txt_PC_GDP == <<"P", "C", "_", "G", "D", "P">>

Txt_B == <<"B">>

Txt_Total == <<"T", "o", "t", "a", "l">>

W_Mars == <<"M", "a", "r", "s">>

W_PRC == <<"P", "R", "C">>

W_PaddedUSA == <<" ", " ", "U", ".", "S", ".", "A", ".", " ">>

W_Austria == <<"A", "u", "s", "t", "r", "i", "a">>

W_Indonesia == <<"I", "n", "d", "o", "n", "e", "s", "i", "a">>

W_KoreaRepublicOf == <<"K", "o", "r", "e", "a", ",", " ", "R", "e", "p", "u", "b", "l", "i", "c", " ", "o", "f">>

W_NorthKorea == <<"N", "o", "r", "t", "h", " ", "K", "o", "r", "e", "a">>

W_TabJapanNewline == <<"\t", "J", "a", "p", "a", "n", "\n">>

W_LowerChina == <<"c", "h", "i", "n", "a">>

W_PaddedGermany == <<" ", "G", "e", "r", "m", "a", "n", "y">>

W_Niger == <<"N", "i", "g", "e", "r">>

RC_REF_AREA == <<"R", "E", "F", "_", "A", "R", "E", "A">>

RC_TIME_PERIOD == <<"T", "I", "M", "E", "_", "P", "E", "R", "I", "O", "D">>

RC_MEASURE == <<"M", "E", "A", "S", "U", "R", "E">>

RC_OBS_VALUE == <<"O", "B", "S", "_", "V", "A", "L", "U", "E">>

RC_UNIT_MEASURE == <<"U", "N", "I", "T", "_", "M", "E", "A", "S", "U", "R", "E">>

Txt_G == <<"G">>

Txt_T_RS == <<"T", "_", "R", "S">>


RC_CountryCode == <<"C", "o", "u", "n", "t", "r", "y", " ", "C", "o", "d", "e">>

RC_FiscalYear == <<"F", "i", "s", "c", "a", "l", " ", "Y", "e", "a", "r">>

RC_Nation == <<"N", "a", "t", "i", "o", "n">>

RC_Policy == <<"P", "o", "l", "i", "c", "y">>

RC_Performance == <<"P", "e", "r", "f", "o", "r", "m", "a", "n", "c", "e">>

RC_Value == <<"V", "a", "l", "u", "e">>

RC_Unit == <<"U", "n", "i", "t">>

Txt_fte == <<"f", "t", "e">>

Txt_HC == <<"H", "C">>

RC_2025 == <<"2", "0", "2", "5">>

File_models == <<"M", "o", "d", "e", "l", "s", ".", "c", "s", "v">>

File_totals == <<"t", "o", "t", "a", "l", "s", ".", "c", "s", "v">>

File_paper_citations == <<"p", "a", "p", "e", "r", "_", "c", "i", "t", "a", "t", "i", "o", "n", "s", ".", "c", "s", "v">>

Txt_blank == <<" ">>
----------------------------------------------------------------------------
(* Raw inputs of a run of main *)

T(s) == TextCell(s)

N(i) == NumCell(Num(i))

Missing == [kind |-> "missing", fault |-> FALSE, df |-> RawTable(<<>>, <<>>), files |-> <<>>]

Unreadable == [Missing EXCEPT !.kind = "unreadable"]

Loaded(columns, rows) == [Missing EXCEPT !.kind = "table", !.df = RawTable(columns, rows)]

Faulty(columns, rows) == [Loaded(columns, rows) EXCEPT !.fault = TRUE]

Folder(files) == [Missing EXCEPT !.kind = "folder", !.files = files]

File(name, columns, rows) ==
  [name |-> name, readable |-> TRUE, df |-> RawTable(columns, rows)]

MstiCols == <<RC_REF_AREA, RC_TIME_PERIOD, RC_MEASURE, RC_OBS_VALUE>>

MstiSources ==
  { Missing, Unreadable,
    Faulty(MstiCols, << <<T(Txt_CHN), N(2020), T(Txt_G), N(100)>> >>),
    \* a required role (the year) is missing
    Loaded(<<RC_REF_AREA, RC_MEASURE, RC_OBS_VALUE>>, << <<T(Txt_CHN), T(Txt_G), N(100)>> >>),
    Loaded(MstiCols, << <<T(Txt_CHN), N(2020), T(Txt_G), N(100)>>,
                        <<T(Txt_CHN), N(2021), T(Txt_T_RS), N(50)>> >>),
    Loaded(MstiCols, << <<T(Txt_USA), N(2020), T(Txt_G), N(10)>>,
                        <<T(Txt_US), N(2020), T(Txt_G), N(30)>>,
                        <<T(Txt_Mars), N(2020), T(Txt_G), N(7)>>,
                        <<NaNCell, N(2020), T(Txt_G), N(7)>>,
                        <<T(Txt_USA), N(2022), T(Txt_B), N(9)>> >>),
    Loaded(<<RC_REF_AREA, RC_TIME_PERIOD, RC_MEASURE, RC_UNIT_MEASURE, RC_OBS_VALUE>>,
           << <<T(Txt_CHN), N(2020), T(Txt_G), T(Txt_USD_PPP), N(100)>>,
              <<T(Txt_CHN), N(2020), T(Txt_G), T(Txt_PC_GDP), N(2)>> >>) }

EmberCols == <<RC_Area, RC_Year, RC_TotalGeneration, RC_RenewablesGeneration>>

EmberSources ==
  { Missing, Unreadable,
    Faulty(EmberCols, << <<T(Txt_USA), N(2020), N(10), N(1)>> >>),
    \* a required role (the year) is missing
    Loaded(<<RC_Area, RC_TotalGeneration>>, << <<T(Txt_USA), N(10)>> >>),
    Loaded(EmberCols, << <<T(Txt_USA), N(2020), N(10), NaNCell>>,
                         <<T(Txt_USA), N(2022), N(30), N(4)>>,
                         <<T(Txt_Mars), N(2021), N(5), N(5)>>,
                         <<NaNCell, N(2021), N(5), N(5)>> >>),
    \* two rows that name the same country in the same year
    Loaded(EmberCols, << <<T(Txt_USA), N(2020), N(10), N(1)>>,
                         <<T(UnitedStates), N(2020), N(12), NaNCell>>,
                         <<T(Txt_USA), N(2022), N(30), N(3)>> >>),
    \* the year column was read as text
    Loaded(EmberCols, << <<T(China), T(Txt_2021), N(8), N(2)>>,
                         <<T(Txt_CHN), T(Txt_na), N(9), N(2)>> >>) }

BroadbandCols == <<RC_REF_AREA, RC_TIME_PERIOD, RC_MEASURE, RC_OBS_VALUE>>

BroadbandSources ==
  { Missing, Unreadable,
    Faulty(BroadbandCols, << <<T(Txt_USA), N(2020), T(Txt_B), N(40)>> >>),
    Loaded(<<RC_REF_AREA, RC_TIME_PERIOD>>, << <<T(Txt_USA), N(2020)>> >>),
    Loaded(BroadbandCols, << <<T(Txt_USA), N(2020), T(Txt_B), N(40)>>,
                             <<T(Txt_USA), N(2020), T(Txt_G), N(45)>>,
                             <<T(Txt_CHN), N(2021), T(Txt_B), N(60)>>,
                             <<T(Txt_Mars), N(2021), T(Txt_B), N(1)>> >>),
    \* the value column was read as text
    Loaded(BroadbandCols, << <<T(Txt_USA), N(2020), T(Txt_B), T(Txt_na)>> >>) }

Top500Sources ==
  { Missing, Unreadable,
    Faulty(<<RC_Country, RC_Rmax>>, << <<T(Txt_USA), N(3)>> >>),
    Loaded(<<RC_Rmax, RC_Year>>, << <<N(3), N(2020)>> >>),
    Loaded(<<RC_Country, RC_Year>>, << <<T(Txt_USA), N(2020)>> >>),
    Loaded(<<RC_Country, RC_Year, RC_Rmax>>,
           << <<T(Txt_USA), N(2021), N(3)>>, <<T(UnitedStates), N(2021), N(4)>>,
              <<T(Txt_CHN), N(2022), N(5)>>, <<T(Txt_Mars), N(2022), N(6)>>,
              <<T(Txt_CHN), NaNCell, N(6)>> >>),
    Loaded(<<RC_Country, RC_Rmax>>,
           << <<T(Txt_USA), N(3)>>, <<T(UnitedStates), N(4)>>, <<T(Txt_IND), N(5)>>,
              <<NaNCell, N(5)>> >>) }

StanfordSources ==
  { Missing,
    [Folder(<<>>) EXCEPT !.fault = TRUE],
    Folder(<<File(File_notes, <<RC_Country, RC_2020>>, << <<T(Txt_USA), N(1)>> >>)>>),
    \* no year column in range; no country in the first column
    Folder(<<File(File_patents, <<RC_Country, RC_2009>>, << <<T(Txt_USA), N(1)>> >>),
             File(File_publications, <<RC_Label, RC_2020>>, << <<T(Txt_Total), N(1)>> >>)>>),
    Folder(<<File(File_patents, <<RC_Country, RC_2020, RC_2021>>,
                  << <<T(Txt_USA), N(5), N(6)>>, <<T(Txt_Mars), N(9), N(9)>>,
                     <<T(Txt_CHN), NaNCell, N(7)>> >>),
             File(File_patents_by_office, <<RC_Country, RC_2020>>,
                  << <<T(UnitedStates), N(8)>> >>),
             [File(File_publications, <<RC_Country, RC_2020>>, << <<T(Txt_USA), N(1)>> >>)
                EXCEPT !.readable = FALSE]>>),
    Folder(<<File(File_publications, <<RC_Country, RC_2022>>,
                  << <<T(India), N(2)>>, <<NaNCell, N(3)>> >>)>>) }

TortoiseSources ==
  { Missing, Unreadable,
    Faulty(<<RC_Country, RC_Commercial>>, << <<T(Txt_USA), N(5)>> >>),
    Loaded(<<RC_Year, RC_Commercial>>, << <<N(2020), N(5)>> >>),
    \* no year column, and two rows that name the same country
    Loaded(<<RC_Country, RC_GovernmentStrategy, RC_Commercial>>,
           << <<T(Txt_USA), N(5), N(50)>>, <<T(UnitedStates), N(7), N(70)>>,
              <<T(Txt_Mars), N(1), N(1)>> >>),
    Loaded(<<RC_Country, RC_Year, RC_GovernmentStrategy, RC_Commercial>>,
           << <<T(China), N(2020), N(6), N(60)>>, <<T(China), N(2022), N(8), NaNCell>>,
              <<T(India), N(2021), NaNCell, N(20)>>, <<NaNCell, N(2021), N(1), N(1)>> >>),
    Loaded(<<RC_Country, RC_Year, RC_GovernmentStrategy>>,
           << <<T(Txt_USA), T(Txt_2021), N(5)>>, <<T(Txt_USA), T(Txt_na), N(5)>> >>) }

SourcesOf(adapter) ==
  CASE adapter = "process_oecd_msti"         -> MstiSources
    [] adapter = "process_ember_electricity" -> EmberSources
    [] adapter = "process_oecd_broadband"    -> BroadbandSources
    [] adapter = "process_top500_compute"    -> Top500Sources
    [] adapter = "process_stanford_ai_index" -> StanfordSources
    [] adapter = "process_tortoise_index"    -> TortoiseSources

----------------------------------------------------------------------------
(* The run of main *)

Init ==
  /\ pc = Adapters[1]
  /\ raw_source = <<>>
  /\ country_name = NaN
  /\ std_name = None
  /\ all_dataframes = <<>>
  /\ df_merged = EmptyDF
  /\ df_interpolated = EmptyDF
  /\ df_final = EmptyDF
  /\ output_file = <<>>
  /\ raised = FALSE

\* Lines 848-853: the next adapter runs on whatever is on disk for it.  An
\* exception that leaves the adapter ends main.
ProcessSource ==
  \E k \in 1..Len(Adapters) :
    /\ pc = Adapters[k]
    /\ \E src \in SourcesOf(Adapters[k]) :
         /\ raw_source' = <<src>>
         /\ \E result \in {RunAdapter(Adapters[k], src)} :
             IF result.raised
             THEN /\ raised' = TRUE
                  /\ pc' = "crashed"
                  /\ UNCHANGED all_dataframes
             ELSE /\ all_dataframes' = Append(all_dataframes, result.df)
                  /\ pc' = IF k < Len(Adapters) THEN Adapters[k + 1] ELSE "merge_all_data"
                  /\ UNCHANGED raised
    /\ UNCHANGED <<country_name, std_name, df_merged, df_interpolated, df_final, output_file>>

\* Lines 879-883
Merge ==
  /\ pc = "merge_all_data"
  /\ df_merged' = merge_all_data(all_dataframes)
  /\ pc' = AfterMerge(df_merged')
  /\ raw_source' = <<>>
  /\ UNCHANGED <<country_name, std_name, all_dataframes, df_interpolated, df_final,
                 output_file, raised>>

\* Line 889
Interpolate ==
  /\ pc = "interpolate_missing_years"
  /\ df_interpolated' = interpolate_missing_years(df_merged)
  /\ pc' = "impute_with_commercial_score"
  /\ UNCHANGED <<raw_source, country_name, std_name, all_dataframes, df_merged, df_final,
                 output_file, raised>>

\* Line 895: the imputer changes the table it is given and returns it, so
\* df_final and df_interpolated are the same table afterwards.
Impute ==
  /\ pc = "impute_with_commercial_score"
  /\ df_final' = impute_with_commercial_score(df_interpolated)
  /\ df_interpolated' = df_final'
  /\ pc' = "save"
  /\ UNCHANGED <<raw_source, country_name, std_name, all_dataframes, df_merged, output_file, raised>>

\* Lines 901-909
Save ==
  /\ pc = "save"
  /\ df_final' = Artifact(df_final)
  /\ output_file' = Append(output_file, df_final')
  /\ pc' = "done"
  /\ UNCHANGED <<raw_source, country_name, std_name, all_dataframes, df_merged, df_interpolated, raised>>

Next == ProcessSource \/ Merge \/ Interpolate \/ Impute \/ Save

Spec == Init /\ [][Next]_vars

----------------------------------------------------------------------------
(* The normalizer on its own *)

MaxNameLen == 3

NameAlphabet == {"U", "S", "u", "k", " ", "."}

RECURSIVE StringsUpTo(_)
StringsUpTo(n) ==
  IF n = 0 THEN {<<>>}
  ELSE LET shorter == StringsUpTo(n - 1)
       IN  shorter \cup {Append(s, c) : s \in shorter, c \in NameAlphabet}

KnownNames ==
  {TARGET_COUNTRIES[i] : i \in 1..Len(TARGET_COUNTRIES)}
    \cup {COUNTRY_NAME_MAPPING[i].variant : i \in 1..Len(COUNTRY_NAME_MAPPING)}

NameInputs ==
  {NaN} \cup StringsUpTo(MaxNameLen) \cup KnownNames
    \cup {Lower(s) : s \in KnownNames} \cup {Upper(s) : s \in KnownNames}
    \cup {<<" ">> \o s \o <<" ", "\t">> : s \in KnownNames}
    \cup {W_Mars, W_PRC, W_PaddedUSA, W_Austria, W_Indonesia, W_KoreaRepublicOf,
          W_NorthKorea, W_TabJapanNewline, W_LowerChina, W_PaddedGermany, W_Niger}


InitNames ==
  /\ pc = "standardize_country_name"
  /\ raw_source = <<>>
  /\ country_name \in NameInputs
  /\ std_name = None
  /\ all_dataframes = <<>>
  /\ df_merged = EmptyDF
  /\ df_interpolated = EmptyDF
  /\ df_final = EmptyDF
  /\ output_file = <<>>
  /\ raised = FALSE

Standardize ==
  /\ pc = "standardize_country_name"
  /\ std_name' = standardize_country_name(country_name)
  /\ pc' = "returned"
  /\ UNCHANGED <<raw_source, country_name, all_dataframes, df_merged, df_interpolated, df_final,
                 output_file, raised>>

NextNames == Standardize

SpecNames == InitNames /\ [][NextNames]_vars
----------------------------------------------------------------------------
(* merge_all_data on its own: the adapters' tables drawn from bounded sets *)

\* How many tables the list holds.
MaxTables == 3

\* The feature column of the t-th table.
MergeFeatures ==
  <<Col_GERD_Million_USD, Col_Fibre_Percentage, Col_Commercial_Score,
    Col_Compute_Power_Rmax, Col_Policy_Score>>

MergeKeys == << <<UnitedStates, 2020>>, <<UnitedStates, 2021>>, <<China, 2020>> >>

\* The ways to pick keys for a table: distinct keys, in the order of MergeKeys
\* or in the opposite order (an adapter may return its rows unsorted).
KeyOrders ==
  LET Picks == UNION {[1..n -> 1..Len(MergeKeys)] : n \in 0..Len(MergeKeys)}
  IN  {ks \in Picks : \/ \A i \in 1..(Len(ks) - 1) : ks[i] < ks[i + 1]
                      \/ \A i \in 1..(Len(ks) - 1) : ks[i] > ks[i + 1]}

\* The cell of key k in table t: a number that tells both, one cell missing.
MergeCell(t, k) == IF t = 2 /\ k = 2 THEN NaNCell ELSE NumCell(Num(10 * t + k))

KeyedTable(t, ks) ==
  DataFrame(<<Col_Country, Col_Year, MergeFeatures[t]>>,
            [i \in 1..Len(ks) |->
              [Country |-> MergeKeys[ks[i]][1], Year |-> MergeKeys[ks[i]][2],
               f |-> [c \in {MergeFeatures[t]} |-> MergeCell(t, ks[i])]]])

InitMerge ==
  /\ pc = "merge_all_data"
  /\ raw_source = <<>>
  /\ country_name = NaN
  /\ std_name = None
  /\ \E picks \in [1..MaxTables -> KeyOrders] :
       all_dataframes = [t \in 1..MaxTables |-> KeyedTable(t, picks[t])]
  /\ df_merged = EmptyDF
  /\ df_interpolated = EmptyDF
  /\ df_final = EmptyDF
  /\ output_file = <<>>
  /\ raised = FALSE

NextMerge == Merge

SpecMerge == InitMerge /\ [][NextMerge]_vars

----------------------------------------------------------------------------
(* interpolate_missing_years on its own: the merged table drawn from       *)
(* bounded sets                                                            *)

\* How many rows of the first country the table holds at most.
MaxRows == 3

\* How many years its rows may come from.
MaxSpan == 5

InterpYears == 2018..(2018 + MaxSpan - 1)

InterpValues == {nan, Num(10), Num(30)}

\* The merged table is sorted by key, so the years of a country never fall;
\* a key may recur (a source table may hold it twice).
YearRuns ==
  LET Picks == UNION {[1..n -> InterpYears] : n \in 1..MaxRows}
  IN  {ys \in Picks : \A i \in 1..(Len(ys) - 1) : ys[i] <= ys[i + 1]}

ValueRuns(n) == [1..n -> InterpValues]

InterpVariants == {"plain", "two_countries", "object_column"}

\* The rows of the United States: years ys, values vs of a numeric column; in
\* variant "object_column" a second column that was read as text.
InterpRows(ys, vs, variant) ==
  [i \in 1..Len(ys) |->
    [Country |-> UnitedStates, Year |-> ys[i],
     f |-> IF variant = "object_column"
           THEN [c \in {Col_GERD_Million_USD, Col_Policy_Score} |->
                  IF c = Col_GERD_Million_USD THEN NumCell(vs[i]) ELSE TextCell(Txt_na)]
           ELSE [c \in {Col_GERD_Million_USD} |-> NumCell(vs[i])]]]

\* In variant "two_countries" two rows of China come first.
ChinaRows ==
  << [Country |-> China, Year |-> 2019,
      f |-> [c \in {Col_GERD_Million_USD} |-> NumCell(Num(10))]],
     [Country |-> China, Year |-> 2021,
      f |-> [c \in {Col_GERD_Million_USD} |-> NaNCell]] >>

InterpTable(ys, vs, variant) ==
  DataFrame(IF variant = "object_column"
            THEN <<Col_Country, Col_Year, Col_GERD_Million_USD, Col_Policy_Score>>
            ELSE <<Col_Country, Col_Year, Col_GERD_Million_USD>>,
            (IF variant = "two_countries" THEN ChinaRows ELSE <<>>)
              \o InterpRows(ys, vs, variant))

InitInterp ==
  /\ pc = "interpolate_missing_years"
  /\ raw_source = <<>>
  /\ country_name = NaN
  /\ std_name = None
  /\ all_dataframes = <<>>
  /\ \E ys \in YearRuns : \E vs \in ValueRuns(Len(ys)) : \E variant \in InterpVariants :
       df_merged = InterpTable(ys, vs, variant)
  /\ df_interpolated = EmptyDF
  /\ df_final = EmptyDF
  /\ output_file = <<>>
  /\ raised = FALSE

NextInterp == Interpolate

SpecInterp == InitInterp /\ [][NextInterp]_vars

----------------------------------------------------------------------------
(* impute_with_commercial_score on its own: the interpolated table drawn   *)
(* from bounded sets                                                       *)

\* How many rows the table holds at most.
MaxImputeRows == 2

\* A column that passes the test of lines 817: both keywords in its name.
Col_Business_AI_Usage ==
  <<"B", "u", "s", "i", "n", "e", "s", "s", "_", "A", "I", "_", "U", "s", "a", "g", "e">>

ImputeColumnSets ==
  {<<>>, <<Col_Commercial_Score>>, <<Col_Business_AI_Usage>>,
   <<Col_Policy_Score, Col_Commercial_Score>>,
   <<Col_Commercial_Score, Col_Business_AI_Usage>>}

ImputeCells == {NaNCell, NumCell(Num(10)), NumCell(Num(30))}

\* The business-AI column carries values no Commercial_Score cell has, so a
\* filled cell can be told from a given one.
ImputeCellsOf(col) ==
  IF col = Col_Business_AI_Usage THEN {NaNCell, NumCell(Num(20))} ELSE ImputeCells

ImputeRowCells(fcols) ==
  {cells \in [Range(fcols) -> ImputeCells \cup {NumCell(Num(20))}] :
     \A c \in Range(fcols) : cells[c] \in ImputeCellsOf(c)}

\* A row is of a country the imputer fills or of one it does not.
ImputeCountries == {China, UnitedStates}

\* A table after interpolation: Year leads, one row per year.
ImputeTable(fcols, countries, cells) ==
  DataFrame(<<Col_Year, Col_Country>> \o fcols,
            [i \in 1..Len(countries) |->
              [Country |-> countries[i], Year |-> 2019 + i, f |-> cells[i]]])

InitImpute ==
  /\ pc = "impute_with_commercial_score"
  /\ raw_source = <<>>
  /\ country_name = NaN
  /\ std_name = None
  /\ all_dataframes = <<>>
  /\ df_merged = EmptyDF
  /\ \E fcols \in ImputeColumnSets : \E n \in 1..MaxImputeRows :
       \E countries \in [1..n -> ImputeCountries] :
         \E cells \in [1..n -> ImputeRowCells(fcols)] :
           df_interpolated = ImputeTable(fcols, countries, cells)
  /\ df_final = EmptyDF
  /\ output_file = <<>>
  /\ raised = FALSE

NextImpute == Impute

SpecImpute == InitImpute /\ [][NextImpute]_vars

----------------------------------------------------------------------------
(* One adapter on its own, on a table whose columns are drawn from the      *)
(* names its column detection knows                                         *)

\* How many columns the table has at most.
MaxCols == 3

\* The adapters that detect their columns by keyword.
RoleAdapters ==
  {"process_oecd_msti", "process_ember_electricity", "process_oecd_broadband",
   "process_top500_compute", "process_tortoise_index"}

\* Column names per adapter, two for some roles.
RolePool(adapter) ==
  CASE adapter = "process_oecd_msti" ->
         {RC_REF_AREA, RC_Country, RC_TIME_PERIOD, RC_Year, RC_MEASURE, RC_OBS_VALUE}
    [] adapter = "process_oecd_broadband" ->
         {RC_REF_AREA, RC_Country, RC_TIME_PERIOD, RC_OBS_VALUE, RC_Value, RC_MEASURE}
    [] adapter = "process_ember_electricity" ->
         {RC_Area, RC_Country, RC_Year, RC_FiscalYear, RC_TotalGeneration}
    [] adapter = "process_top500_compute" ->
         {RC_Country, RC_CountryCode, RC_Year, RC_FiscalYear, RC_Rmax, RC_Performance}
    [] adapter = "process_tortoise_index" ->
         {RC_Country, RC_Nation, RC_Year, RC_GovernmentStrategy, RC_Policy, RC_Commercial}

\* The sequences of up to n different names of a pool.
RECURSIVE ColumnLists(_, _)
ColumnLists(pool, n) ==
  IF n = 0 THEN {<<>>}
  ELSE LET shorter == ColumnLists(pool, n - 1)
       IN  shorter \cup UNION {{Append(s, c) : c \in pool \ Range(s)} : s \in shorter}

RoleCountryNames == {RC_REF_AREA, RC_Country, RC_Area, RC_CountryCode, RC_Nation}

RoleYearNames == {RC_TIME_PERIOD, RC_Year, RC_FiscalYear}

\* The cell of the one row in the i-th column: every country column names
\* another country, every year column another year, every value differs.
RoleCell(name, i) ==
  IF name \in RoleCountryNames THEN T(<<Txt_USA, Txt_CHN, Txt_IND, India>>[((i - 1) % 4) + 1])
  ELSE IF name \in RoleYearNames THEN N(2019 + i)
  ELSE IF name = RC_MEASURE THEN T(Txt_G)
  ELSE N(10 * i)

RoleTable(columns) ==
  Loaded(columns, << [i \in 1..Len(columns) |-> RoleCell(columns[i], i)] >>)

InitRoles ==
  /\ \E adapter \in RoleAdapters :
       /\ pc = adapter
       /\ \E columns \in ColumnLists(RolePool(adapter), MaxCols) \ {<<>>} :
            raw_source = <<RoleTable(columns)>>
  /\ country_name = NaN
  /\ std_name = None
  /\ all_dataframes = <<>>
  /\ df_merged = EmptyDF
  /\ df_interpolated = EmptyDF
  /\ df_final = EmptyDF
  /\ output_file = <<>>
  /\ raised = FALSE

\* The adapter runs on the table.
CallAdapter ==
  /\ pc \in Range(Adapters)
  /\ raw_source # <<>>
  /\ all_dataframes' = <<RunAdapter(pc, raw_source[1]).df>>
  /\ pc' = "returned"
  /\ UNCHANGED <<raw_source, country_name, std_name, df_merged, df_interpolated, df_final,
                 output_file, raised>>

NextRoles == CallAdapter

SpecRoles == InitRoles /\ [][NextRoles]_vars
----------------------------------------------------------------------------
(* The R&D adapter on its own, on tables whose rows are drawn from a pool   *)

\* How many rows the R&D table has at most.
MaxMstiRows == 3

\* Rows as country, year, measure, unit, value: two rows of the same key that
\* pass every filter, a row with another unit, another measure, an unknown
\* country, a year that is no number, a row of researchers, a missing value.
MstiRowPool ==
  { <<T(Txt_USA), N(2020), T(Txt_G), T(Txt_USD_PPP), N(10)>>,
    <<T(Txt_US), N(2020), T(Txt_G), T(Txt_fte), N(30)>>,
    <<T(Txt_USA), N(2020), T(Txt_G), T(Txt_PC_GDP), N(50)>>,
    <<T(Txt_USA), N(2020), T(Txt_B), T(Txt_USD_PPP), N(70)>>,
    <<T(Txt_Mars), N(2020), T(Txt_G), T(Txt_USD_PPP), N(7)>>,
    <<T(Txt_CHN), T(Txt_na), T(Txt_T_RS), T(Txt_HC), N(5)>>,
    <<T(Txt_CHN), N(2021), T(Txt_T_RS), T(Txt_HC), N(40)>>,
    <<T(Txt_USA), N(2020), T(Txt_G), T(Txt_USD_PPP), NaNCell>> }

\* The columns of the table: which of the five cells of a pool row it has, and
\* under which names.
MstiLayouts ==
  { [names |-> <<RC_REF_AREA, RC_TIME_PERIOD, RC_MEASURE, RC_OBS_VALUE>>, cells |-> <<1, 2, 3, 5>>],
    [names |-> <<RC_REF_AREA, RC_TIME_PERIOD, RC_MEASURE, RC_Unit, RC_OBS_VALUE>>,
     cells |-> <<1, 2, 3, 4, 5>>],
    [names |-> <<RC_REF_AREA, RC_TIME_PERIOD, RC_MEASURE, RC_UNIT_MEASURE, RC_OBS_VALUE>>,
     cells |-> <<1, 2, 3, 4, 5>>],
    [names |-> <<RC_REF_AREA, RC_TIME_PERIOD, RC_UNIT_MEASURE, RC_MEASURE, RC_OBS_VALUE>>,
     cells |-> <<1, 2, 4, 3, 5>>],
    [names |-> <<RC_REF_AREA, RC_TIME_PERIOD, RC_OBS_VALUE>>, cells |-> <<1, 2, 5>>] }

\* The sequences of up to n elements of a set.
RECURSIVE SeqsUpTo(_, _)
SeqsUpTo(pool, n) ==
  IF n = 0 THEN {<<>>}
  ELSE LET shorter == SeqsUpTo(pool, n - 1)
       IN  shorter \cup {Append(s, r) : s \in shorter, r \in pool}

LayoutTable(layout, rows) ==
  Loaded(layout.names,
         [i \in 1..Len(rows) |-> [k \in 1..Len(layout.cells) |-> rows[i][layout.cells[k]]]])

InitMsti ==
  /\ pc = "process_oecd_msti"
  /\ \E layout \in MstiLayouts : \E rows \in SeqsUpTo(MstiRowPool, MaxMstiRows) \ {<<>>} :
       raw_source = <<LayoutTable(layout, rows)>>
  /\ country_name = NaN
  /\ std_name = None
  /\ all_dataframes = <<>>
  /\ df_merged = EmptyDF
  /\ df_interpolated = EmptyDF
  /\ df_final = EmptyDF
  /\ output_file = <<>>
  /\ raised = FALSE

NextMsti == CallAdapter

SpecMsti == InitMsti /\ [][NextMsti]_vars

----------------------------------------------------------------------------
(* The compute-capacity adapter on its own                                  *)

\* How many rows the compute-capacity table has at most.
MaxTop500Rows == 3

\* Rows as country, year, performance: two names of one country in one year,
\* another country, an unknown one, a missing year, the mid-year list of 2021
\* dated 2021.5, a missing value.
Top500RowPool ==
  { <<T(Txt_USA), N(2021), N(3)>>,
    <<T(UnitedStates), N(2021), N(4)>>,
    <<T(Txt_CHN), N(2022), N(5)>>,
    <<T(Txt_Mars), N(2022), N(6)>>,
    <<T(Txt_CHN), NaNCell, N(6)>>,
    <<T(Txt_USA), NumCell(Rat(4043, 2)), N(8)>>,
    <<T(Txt_USA), N(2021), NaNCell>> }

Top500Layouts ==
  { [names |-> <<RC_Country, RC_Year, RC_Rmax>>, cells |-> <<1, 2, 3>>],
    [names |-> <<RC_Country, RC_Rmax>>, cells |-> <<1, 3>>] }

InitTop500 ==
  /\ pc = "process_top500_compute"
  /\ \E layout \in Top500Layouts : \E rows \in SeqsUpTo(Top500RowPool, MaxTop500Rows) \ {<<>>} :
       raw_source = <<LayoutTable(layout, rows)>>
  /\ country_name = NaN
  /\ std_name = None
  /\ all_dataframes = <<>>
  /\ df_merged = EmptyDF
  /\ df_interpolated = EmptyDF
  /\ df_final = EmptyDF
  /\ output_file = <<>>
  /\ raised = FALSE

NextTop500 == CallAdapter

SpecTop500 == InitTop500 /\ [][NextTop500]_vars

----------------------------------------------------------------------------
(* The AI-index adapter on its own, on folders of files drawn from a pool   *)

\* How many files the folder has at most.
MaxFiles == 2

\* Twenty rows without a country and a row of the United States after them.
LateCountryRows ==
  [i \in 1..21 |-> IF i < 21 THEN <<T(Txt_Total), N(1)>> ELSE <<T(Txt_USA), N(99)>>]

\* Two patent files with values for the same key, a file that cannot be read,
\* a file whose year columns are out of range, a file without a country, a
\* file with a country after the twentieth row only, a file named by two
\* keywords, a file with a blank name in its first column, a file that is no
\* csv file.
StanfordFilePool ==
  { File(File_patents, <<RC_Country, RC_2020, RC_2021>>,
         << <<T(Txt_USA), N(5), N(6)>>, <<T(Txt_Mars), N(9), N(9)>>,
            <<T(Txt_CHN), NaNCell, N(7)>> >>),
    File(File_patents_by_office, <<RC_Country, RC_2020, RC_2025>>,
         << <<T(UnitedStates), N(8), N(50)>> >>),
    [File(File_publications, <<RC_Country, RC_2020>>, << <<T(Txt_USA), N(1)>> >>)
       EXCEPT !.readable = FALSE],
    File(File_publications, <<RC_Country, RC_2009, RC_2025>>, << <<T(Txt_USA), N(1), N(2)>> >>),
    File(File_models, <<RC_Label, RC_2020>>, << <<T(Txt_Total), N(1)>> >>),
    File(File_totals, <<RC_Label, RC_2020>>, LateCountryRows),
    File(File_paper_citations, <<RC_Country, RC_2020>>,
         << <<T(Txt_USA), N(3)>>, <<T(Txt_USA), N(2)>> >>),
    File(File_models, <<RC_Label, RC_2021>>,
         << <<T(Txt_blank), N(4)>>, <<T(India), T(Txt_na)>> >>),
    File(File_notes, <<RC_Country, RC_2020>>, << <<T(Txt_USA), N(77)>> >>) }

\* The sequences of up to n files of the pool with different names.
RECURSIVE FileLists(_)
FileLists(n) ==
  IF n = 0 THEN {<<>>}
  ELSE LET shorter == FileLists(n - 1)
       IN  shorter \cup UNION {{Append(s, file) : file \in
                                  {g \in StanfordFilePool : \A i \in 1..Len(s) : s[i].name # g.name}} :
                               s \in shorter}

InitStanford ==
  /\ pc = "process_stanford_ai_index"
  /\ \E files \in FileLists(MaxFiles) : raw_source = <<Folder(files)>>
  /\ country_name = NaN
  /\ std_name = None
  /\ all_dataframes = <<>>
  /\ df_merged = EmptyDF
  /\ df_interpolated = EmptyDF
  /\ df_final = EmptyDF
  /\ output_file = <<>>
  /\ raised = FALSE

NextStanford == CallAdapter

SpecStanford == InitStanford /\ [][NextStanford]_vars
----------------------------------------------------------------------------
(* Properties *)

Countries == Range(TARGET_COUNTRIES)

\* The rows of one country, in table order.
RowsOfCountry(df, country) ==
  LET IsCountry(r) == r.Country = country
  IN  SelectSeq(df.rows, IsCountry)

UniqueKeys(df) ==
  \A i, j \in 1..Len(df.rows) : Key(df.rows[i]) = Key(df.rows[j]) => i = j

\* C1: after a full run of the pipeline no two rows of the final panel have the
\* same (Country, Year) pair, whatever the raw sources hold.
C1_FinalKeysUnique == pc = "done" => UniqueKeys(df_final)

CountriesCanonical(df) ==
  \A i \in 1..Len(df.rows) : InList(df.rows[i].Country, TARGET_COUNTRIES)

\* C2: in every adapter's table and in the merged, interpolated and imputed
\* tables every row's Country is one of the ten names of TARGET_COUNTRIES, so
\* no row is left of a raw row whose country cell normalizes to None.
C2_CountriesCanonical ==
  /\ \A i \in 1..Len(all_dataframes) : CountriesCanonical(all_dataframes[i])
  /\ CountriesCanonical(df_merged)
  /\ CountriesCanonical(df_interpolated)
  /\ CountriesCanonical(df_final)
  /\ \A i \in 1..Len(output_file) : CountriesCanonical(output_file[i])

\* An adapter has just returned a table with rows from a raw table that holds
\* a row of a country that normalizes to None.
C2_Witness ==
  /\ raw_source # <<>>
  /\ raw_source[1].kind = "table"
  /\ standardize_country_name(Txt_Mars) = None
  /\ \E i \in 1..Len(raw_source[1].df.rows) :
       \E p \in 1..Len(raw_source[1].df.rows[i]) :
         raw_source[1].df.rows[i][p] = TextCell(Txt_Mars)
  /\ Len(all_dataframes) > 0
  /\ Len(all_dataframes[Len(all_dataframes)].rows) > 0

\* The four steps as the rule states them, on a trimmed name.
FourStep(name) ==
  LET Aliases == 1..Len(COUNTRY_NAME_MAPPING)
      Exact == {i \in Aliases : COUNTRY_NAME_MAPPING[i].variant = name}
      Fuzzy == {i \in Aliases :
                  \/ Contains(Lower(COUNTRY_NAME_MAPPING[i].variant), Lower(name))
                  \/ Contains(Lower(name), Lower(COUNTRY_NAME_MAPPING[i].variant))}
  IN  IF name \in Countries THEN name
      ELSE IF Exact # {} THEN COUNTRY_NAME_MAPPING[CHOOSE i \in Exact : TRUE].standard
      ELSE IF Fuzzy # {}
      THEN COUNTRY_NAME_MAPPING[CHOOSE i \in Fuzzy : \A j \in Fuzzy : i <= j].standard
      ELSE None

\* C3: for every string standardize_country_name returns what the ordered
\* four-step rule gives on the trimmed string: a canonical name itself, else
\* the value of the alias it equals, else the value of the first alias in
\* declaration order that contains it or is contained in it without regard to
\* case, else None; so PRC gives China, '  U.S.A. ' gives United States, Mars
\* gives None and a canonical name gives itself.
C3_FourStepRule ==
  (pc = "returned" /\ country_name # NaN) =>
    /\ std_name = FourStep(Strip(country_name))
    /\ country_name = W_PRC => std_name = China
    /\ country_name = W_PaddedUSA => std_name = UnitedStates
    /\ country_name = W_Mars => std_name = None
    /\ country_name \in Countries => std_name = country_name

\* The padded alias of the rule's example has been normalized.
C3_Witness ==
  /\ pc = "returned"
  /\ country_name = W_PaddedUSA
  /\ std_name = UnitedStates

\* What the rule asks of the merged table for inputs keyed uniquely: one row
\* per key of the inputs' keys together, each with the values of the inputs
\* that have the key and missing for the columns of those that lack it.
MergedByKey(df_list, merged) ==
  LET NonEmpty == {i \in 1..Len(df_list) : Len(df_list[i].rows) > 0}
  IN  /\ Keys(merged) = UNION {Keys(df_list[i]) : i \in NonEmpty}
      /\ UniqueKeys(merged)
      /\ \A p \in 1..Len(merged.rows) : \A i \in NonEmpty :
           \A c \in Range(FeatureCols(df_list[i])) :
             /\ c \in DOMAIN merged.rows[p].f
             /\ merged.rows[p].f[c] =
                  IF Key(merged.rows[p]) \in Keys(df_list[i])
                  THEN RowsWithKey(df_list[i], Key(merged.rows[p]))[1].f[c]
                  ELSE NaNCell

\* C4: given tables that are each keyed uniquely by (Country, Year),
\* merge_all_data returns exactly one row per key of the union of the
\* non-empty tables' keys; a row carries the feature values of every table
\* that has its key, unchanged, and missing for the feature columns of every
\* table that lacks it.
C4_OuterMergeByKey ==
  (/\ pc \in {"interpolate_missing_years", "no_data"}
   /\ \A i \in 1..Len(all_dataframes) : UniqueKeys(all_dataframes[i]))
    => MergedByKey(all_dataframes, df_merged)

\* The rule's example: the first table has the United States in 2020 and
\* 2021, the second in 2020 only; the merged table has two rows, the row of
\* 2021 with the second table's column missing.
C4_Witness ==
  /\ pc = "interpolate_missing_years"
  /\ Keys(all_dataframes[1]) = {<<UnitedStates, 2020>>, <<UnitedStates, 2021>>}
  /\ Keys(all_dataframes[2]) = {<<UnitedStates, 2020>>}
  /\ Keys(all_dataframes[3]) = {}
  /\ Len(df_merged.rows) = 2
  /\ df_merged.rows[1].Year = 2020
  /\ df_merged.rows[1].f[Col_GERD_Million_USD] = NumCell(Num(11))
  /\ df_merged.rows[1].f[Col_Fibre_Percentage] = NumCell(Num(21))
  /\ df_merged.rows[2].Year = 2021
  /\ df_merged.rows[2].f[Col_GERD_Million_USD] = NumCell(Num(12))
  /\ df_merged.rows[2].f[Col_Fibre_Percentage] = NaNCell

AllAdaptersEmpty ==
  /\ Len(all_dataframes) = Len(Adapters)
  /\ \A i \in 1..Len(all_dataframes) : Len(all_dataframes[i].rows) = 0

\* C5: when every adapter has returned an empty table, merge_all_data returns
\* an empty table without raising and main stops there: it never reaches
\* interpolation, imputation or saving, and no artifact is written.
C5_NoDataNoArtifact ==
  AllAdaptersEmpty =>
    /\ pc \in {"merge_all_data", "no_data"}
    /\ pc = "no_data" => Len(df_merged.rows) = 0
    /\ ~raised
    /\ output_file = <<>>

\* main has stopped after merging six empty tables.
C5_Witness ==
  /\ AllAdaptersEmpty
  /\ pc = "no_data"
  /\ df_merged = EmptyDF
  /\ output_file = <<>>

\* The column names of the empty table an adapter returns.
CanonicalColumns(adapter) ==
  CASE adapter = "process_oecd_msti"         -> MstiColumns
    [] adapter = "process_ember_electricity" -> EmberColumns
    [] adapter = "process_oecd_broadband"    -> BroadbandColumns
    [] adapter = "process_top500_compute"    -> Top500Columns
    [] adapter = "process_stanford_ai_index" -> StanfordColumns
    [] adapter = "process_tortoise_index"    -> TortoiseColumns

\* The adapter finds no column for a role it requires.
RequiredRoleMissing(adapter, columns) ==
  CASE adapter = "process_oecd_msti" ->
         \E roles \in {MstiRoles(columns, 1, NoMstiRoles)} :
           ~(HasRole(roles.ref_area_col) /\ HasRole(roles.time_col) /\ HasRole(roles.value_col))
    [] adapter = "process_ember_electricity" ->
         \E roles \in {EmberRoles(columns, 1, [country_col |-> <<>>, year_col |-> <<>>])} :
           ~(HasRole(roles.country_col) /\ HasRole(roles.year_col))
    [] adapter = "process_oecd_broadband" ->
         \E roles \in {BroadbandRoles(columns, 1, NoBroadbandRoles)} :
           ~(HasRole(roles.country_col) /\ HasRole(roles.year_col) /\ HasRole(roles.value_col))
    [] adapter = "process_top500_compute" ->
         \E roles \in {Top500Roles(columns, 1,
                         [country_col |-> <<>>, year_col |-> <<>>, rmax_col |-> <<>>])} :
           ~HasRole(roles.country_col)
    [] adapter = "process_tortoise_index" ->
         \E roles \in {TortoiseRoles(columns, 1,
                         [country_col |-> <<>>, year_col |-> <<>>, policy_col |-> <<>>,
                          commercial_col |-> <<>>])} :
           ~HasRole(roles.country_col)
    [] OTHER -> FALSE

\* The source is missing, cannot be loaded, lacks a required role, or makes a
\* step of the adapter raise.
SourceFails(adapter, src) ==
  \/ src.kind \in {"missing", "unreadable"}
  \/ src.fault
  \/ src.kind = "table" /\ RequiredRoleMissing(adapter, src.df.columns)

\* C6: no adapter lets an error reach main: whenever its source is missing,
\* cannot be loaded, lacks a required column role or makes an internal step
\* fail, the adapter returns the empty table with its canonical columns, and
\* main goes on with the next adapter and then the merge.
C6_AdapterFailuresContained ==
  /\ ~raised
  /\ pc # "crashed"
  /\ pc \in Range(Adapters) => pc = Adapters[Len(all_dataframes) + 1]
  /\ Len(all_dataframes) = Len(Adapters) => pc \notin Range(Adapters)
  /\ raw_source # <<>> =>
       /\ Len(all_dataframes) > 0
       /\ SourceFails(Adapters[Len(all_dataframes)], raw_source[1]) =>
            all_dataframes[Len(all_dataframes)] =
              DataFrame(CanonicalColumns(Adapters[Len(all_dataframes)]), <<>>)

\* A step of the last adapter has raised on its source; the adapter returned
\* its empty table and main is about to merge the other adapters' rows.
C6_Witness ==
  /\ pc = "merge_all_data"
  /\ raw_source # <<>>
  /\ raw_source[1].fault
  /\ all_dataframes[Len(Adapters)] = DataFrame(TortoiseColumns, <<>>)
  /\ \E i \in 1..Len(all_dataframes) : Len(all_dataframes[i].rows) > 0

\* The state in which interpolate_missing_years has just returned: df_merged
\* is the table it was given, df_interpolated the table it returned.
Interpolated == pc = "impute_with_commercial_score"

YearsOfRows(rows) == [i \in 1..Len(rows) |-> rows[i].Year]

\* C7: for every country of the merged table the interpolated table holds
\* exactly the years min_year..max_year of the country's rows, one row per
\* year and none outside; a country without rows gets none.
C7_YearRangeFilled ==
  Interpolated =>
    \A country \in Countries :
      \E given \in {YearsOfRows(RowsOfCountry(df_merged, country))} :
        YearsOfRows(RowsOfCountry(df_interpolated, country)) =
          IF given = <<>> THEN <<>>
          ELSE [k \in 1..(Max(Range(given)) - Min(Range(given)) + 1) |->
                 Min(Range(given)) + k - 1]

\* The years in which the rows give column col a value.
ObservedYears(rows, col) ==
  {rows[i].Year : i \in {j \in 1..Len(rows) : ~CellIsNa(rows[j].f[col])}}

\* The values the rows give column col in year y.
ObservedValues(rows, col, y) ==
  {rows[i].f[col].v : i \in {j \in 1..Len(rows) : rows[j].Year = y /\ ~CellIsNa(rows[j].f[col])}}

OnTheLine(v, y, y0, v0, y1, v1) ==
  v = RAdd(v0, RDivInt(RMulInt(RSub(v1, v0), y - y0), y1 - y0))

\* Every cell of column col that the rows `given` of a country left missing in
\* a year between two years with a value lies on the line through the nearest
\* such years' values.
LinearBetween(given, result, col) ==
  \A p \in 1..Len(result) :
    \E y \in {result[p].Year} :
      \E earlier \in {{o \in ObservedYears(given, col) : o < y}} :
        \E later \in {{o \in ObservedYears(given, col) : o > y}} :
          (y \notin ObservedYears(given, col) /\ earlier # {} /\ later # {}) =>
            \E v0 \in ObservedValues(given, col, Max(earlier)) :
              \E v1 \in ObservedValues(given, col, Min(later)) :
                OnTheLine(result[p].f[col].v, y, Max(earlier), v0, Min(later), v1)

\* C8: in the interpolated table a cell of a numeric feature that was missing
\* in a year strictly between the nearest earlier year y0 with a value v0 and
\* the nearest later year y1 with a value v1 of the same country equals
\* v0 + (v1 - v0) * (y - y0) / (y1 - y0).
C8_LinearInYear ==
  Interpolated =>
    \A country \in Countries :
      \A col \in Range(FeatureCols(df_merged)) :
        IsNumericCol(df_merged, col) =>
          LinearBetween(RowsOfCountry(df_merged, country),
                        RowsOfCountry(df_interpolated, country), col)

\* Every cell of column col in a year before the first row of `given` with a
\* value has that row's value, every cell in a year after the last such row
\* has that row's value.
FlatOutside(given, result, col) ==
  \E known \in {{i \in 1..Len(given) : ~CellIsNa(given[i].f[col])}} :
    known # {} =>
      \A p \in 1..Len(result) :
        /\ result[p].Year < given[Min(known)].Year =>
             result[p].f[col] = given[Min(known)].f[col]
        /\ result[p].Year > given[Max(known)].Year =>
             result[p].f[col] = given[Max(known)].f[col]

\* C9: in the interpolated table, for every country and numeric feature with
\* at least one value for that country, every cell in a year before the first
\* value equals the first value and every cell in a year after the last value
\* equals the last value; none of them is left missing.
C9_FlatExtrapolation ==
  Interpolated =>
    \A country \in Countries :
      \A col \in Range(FeatureCols(df_merged)) :
        IsNumericCol(df_merged, col) =>
          FlatOutside(RowsOfCountry(df_merged, country),
                      RowsOfCountry(df_interpolated, country), col)

\* A value in 2020 only, between rows of 2018 and 2022 without one: the five
\* years 2018..2022 all carry it.
C9_Witness ==
  /\ Interpolated
  /\ df_merged = InterpTable(<<2018, 2020, 2022>>, <<nan, Num(10), nan>>, "plain")
  /\ YearsOfRows(df_interpolated.rows) = <<2018, 2019, 2020, 2021, 2022>>
  /\ \A p \in 1..Len(df_interpolated.rows) :
       df_interpolated.rows[p].f[Col_GERD_Million_USD] = NumCell(Num(10))

\* With a merged table keyed uniquely the years of every country are filled
\* as C7 states.
YearRangeFilledForUniqueKeys == UniqueKeys(df_merged) => C7_YearRangeFilled

\* With a merged table keyed uniquely the cells between two values lie on the
\* line as C8 states.
LinearInYearForUniqueKeys == UniqueKeys(df_merged) => C8_LinearInYear

\* The United States have a value of 10 in 2018 and of 30 in 2022 and no row
\* between: the interpolated table gives 15, 20 and 25 to 2019, 2020 and 2021.
LinearInYearExample ==
  (Interpolated /\ df_merged = InterpTable(<<2018, 2022>>, <<Num(10), Num(30)>>, "plain"))
    => /\ YearsOfRows(df_interpolated.rows) = <<2018, 2019, 2020, 2021, 2022>>
       /\ [p \in 1..5 |-> df_interpolated.rows[p].f[Col_GERD_Million_USD].v]
            = <<Num(10), Num(15), Num(20), Num(25), Num(30)>>

\* The table has no column with both keywords of the business-AI test.
NoBusinessColumn(df) == business_col_of(df) = <<>>

\* `after` is `before` with the one new column Business_AI_Adoption, in every
\* row a copy of the row's Commercial_Score, and nothing else changed.
CommercialScoreCopied(before, after) ==
  /\ after.columns = Append(before.columns, Col_Business_AI_Adoption)
  /\ Len(after.rows) = Len(before.rows)
  /\ \A i \in 1..Len(before.rows) :
       /\ after.rows[i].Country = before.rows[i].Country
       /\ after.rows[i].Year = before.rows[i].Year
       /\ DOMAIN after.rows[i].f = DOMAIN before.rows[i].f \cup {Col_Business_AI_Adoption}
       /\ \A c \in DOMAIN before.rows[i].f : after.rows[i].f[c] = before.rows[i].f[c]
       /\ after.rows[i].f[Col_Business_AI_Adoption] = before.rows[i].f[Col_Commercial_Score]

\* C10 as stated: whenever the table given to impute_with_commercial_score has
\* no column with both 'business' and 'ai' in its name, the table it returns
\* has the new column Business_AI_Adoption equal to Commercial_Score in every
\* row of every country, and no other column or row is changed.
C10_CopyWithoutBusinessColumn ==
  [][(pc = "impute_with_commercial_score" /\ NoBusinessColumn(df_interpolated))
       => CommercialScoreCopied(df_interpolated, df_final')]_vars

\* C10, amended: the same for a table that has a Commercial_Score column; a
\* table without one is returned as it is.
C10_CopyGivenCommercialScore ==
  [][(/\ pc = "impute_with_commercial_score"
      /\ NoBusinessColumn(df_interpolated)
      /\ InList(Col_Commercial_Score, df_interpolated.columns))
       => CommercialScoreCopied(df_interpolated, df_final')]_vars

\* The imputer has returned a table with the new column: a row of a country
\* outside the three carries its Commercial_Score of 30 in it, a row of China
\* has both missing.
C10_Witness ==
  /\ pc = "save"
  /\ df_final.columns =
       <<Col_Year, Col_Country, Col_Commercial_Score, Col_Business_AI_Adoption>>
  /\ Len(df_final.rows) = 2
  /\ df_final.rows[1].Country = China
  /\ df_final.rows[1].f[Col_Commercial_Score] = NaNCell
  /\ df_final.rows[1].f[Col_Business_AI_Adoption] = NaNCell
  /\ df_final.rows[2].Country = UnitedStates
  /\ df_final.rows[2].f[Col_Commercial_Score] = NumCell(Num(30))
  /\ df_final.rows[2].f[Col_Business_AI_Adoption] = NumCell(Num(30))


\* `after` is `before` with the cells of column col that were missing in rows
\* of China, India and the United Arab Emirates set to the row's
\* Commercial_Score, where the table has one, and nothing else changed.
ScopedFill(before, after, col) ==
  /\ after.columns = before.columns
  /\ Len(after.rows) = Len(before.rows)
  /\ \A i \in 1..Len(before.rows) :
       /\ after.rows[i].Country = before.rows[i].Country
       /\ after.rows[i].Year = before.rows[i].Year
       /\ DOMAIN after.rows[i].f = DOMAIN before.rows[i].f
       /\ \A c \in DOMAIN before.rows[i].f :
            after.rows[i].f[c] =
              IF /\ c = col
                 /\ before.rows[i].Country \in {China, India, UnitedArabEmirates}
                 /\ CellIsNa(before.rows[i].f[col])
                 /\ Col_Commercial_Score \in DOMAIN before.rows[i].f
              THEN before.rows[i].f[Col_Commercial_Score]
              ELSE before.rows[i].f[c]

\* C11: when the table given to impute_with_commercial_score has a business-AI
\* column, the table it returns differs only in cells of that column in rows of
\* China, India or the United Arab Emirates whose business-AI value was
\* missing, each now the Commercial_Score of the same row; values that were
\* given, cells of the other countries (missing or not), the other columns and
\* the rows are as they were.
C11_ScopedFillOnly ==
  [][(pc = "impute_with_commercial_score" /\ ~NoBusinessColumn(df_interpolated))
       => ScopedFill(df_interpolated, df_final', business_col_of(df_interpolated)[1])]_vars

\* The imputer has returned: the row of China carries its Commercial_Score of
\* 10 in the business-AI column, a value no given business-AI cell has; the
\* row of the United States still has the column missing beside a score of 30.
C11_Witness ==
  /\ pc = "save"
  /\ df_final.columns = <<Col_Year, Col_Country, Col_Commercial_Score, Col_Business_AI_Usage>>
  /\ Len(df_final.rows) = 2
  /\ df_final.rows[1].Country = China
  /\ df_final.rows[1].f[Col_Commercial_Score] = NumCell(Num(10))
  /\ df_final.rows[1].f[Col_Business_AI_Usage] = NumCell(Num(10))
  /\ df_final.rows[2].Country = UnitedStates
  /\ df_final.rows[2].f[Col_Commercial_Score] = NumCell(Num(30))
  /\ df_final.rows[2].f[Col_Business_AI_Usage] = NaNCell

\* The files of a folder in every order a listing can give them.
Reorderings(files) ==
  LET n == Len(files)
      Orders == {q \in [1..n -> 1..n] : \A i, j \in 1..n : q[i] = q[j] => i = j}
  IN  {[i \in 1..n |-> files[q[i]]] : q \in Orders}

\* The AI-index adapter has just returned.
StanfordReturned ==
  /\ pc = "process_tortoise_index"
  /\ raw_source # <<>>
  /\ Len(all_dataframes) = 5

\* The panel main writes for the tables the adapters returned.
FinalPanel(tables) ==
  Artifact(impute_with_commercial_score(interpolate_missing_years(merge_all_data(tables))))

\* C12: the panel is a function of the raw inputs.  The table the AI-index
\* adapter returns is the same for every order in which the folder's files are
\* listed, and the panel a run writes is the one the stages compute from the
\* adapters' tables: same columns, rows, cells and row order.
C12_Deterministic ==
  /\ StanfordReturned =>
       \A files \in Reorderings(raw_source[1].files) :
         process_stanford_ai_index([raw_source[1] EXCEPT !.files = files]).df
           = all_dataframes[5]
  /\ pc = "done" =>
       /\ df_final = FinalPanel(all_dataframes)
       /\ output_file = <<df_final>>

\* The AI-index adapter has returned for a folder of three files, two of them
\* patent files with the values 5 and 8 for the United States in 2020: the
\* table has the larger one.
C12_Witness ==
  /\ StanfordReturned
  /\ Len(raw_source[1].files) = 3
  /\ \E i \in 1..Len(all_dataframes[5].rows) :
       /\ Key(all_dataframes[5].rows[i]) = <<UnitedStates, 2020>>
       /\ all_dataframes[5].rows[i].f[Col_AI_Patents] = NumCell(Num(8))

\* The R&D rows of the example: China, 2020, gross R&D expenditure, 100 and
\* China, 2021, total researchers, 50.
RDExample ==
  Loaded(MstiCols, << <<T(Txt_CHN), N(2020), T(Txt_G), N(100)>>,
                      <<T(Txt_CHN), N(2021), T(Txt_T_RS), N(50)>> >>)

\* A row of China with the two R&D features.
RDRow(year, gerd, researchers) ==
  [Country |-> China, Year |-> year,
   f |-> (Col_GERD_Million_USD :> gerd) @@ (Col_Researchers :> researchers)]

\* The adapters have returned the table of the example for R&D and no row for
\* any other source.
OnlyRDExample ==
  /\ Len(all_dataframes) = Len(Adapters)
  /\ all_dataframes[1] = process_oecd_msti(RDExample).df
  /\ \A k \in 2..Len(Adapters) : Len(all_dataframes[k].rows) = 0

\* C13: with the R&D rows (China, 2020, G, 100) and (China, 2021, T_RS, 50) as
\* the only data, the R&D adapter gives the rows of 2020 and 2021 with one
\* feature each, and after merge_all_data and interpolate_missing_years the
\* table has exactly the rows (China, 2020) and (China, 2021), both with
\* GERD_Million_USD = 100 and Researchers = 50.
C13_RDExampleEndToEnd ==
  (Interpolated /\ OnlyRDExample) =>
    /\ all_dataframes[1].rows =
         <<RDRow(2020, NumCell(Num(100)), NaNCell), RDRow(2021, NaNCell, NumCell(Num(50)))>>
    /\ df_merged.rows = all_dataframes[1].rows
    /\ Range(df_interpolated.columns) =
         {Col_Country, Col_Year, Col_GERD_Million_USD, Col_Researchers}
    /\ df_interpolated.rows =
         <<RDRow(2020, NumCell(Num(100)), NumCell(Num(50))),
           RDRow(2021, NumCell(Num(100)), NumCell(Num(50)))>>

\* The example has been merged and interpolated: the merged table has the
\* researchers of 2020 missing, the interpolated one has two rows.
C13_Witness ==
  /\ Interpolated
  /\ OnlyRDExample
  /\ df_merged.rows[1].f[Col_Researchers] = NaNCell
  /\ Len(df_interpolated.rows) = 2

\* A step of main in the order of its stages: an adapter is followed by the
\* next adapter or, after the last, by the merge of the six tables; the
\* interpolator gets the merged table, the imputer the interpolated one; the
\* artifact is written from the imputed table, once; nothing follows.
StageOrder ==
  /\ pc \in Range(Adapters) =>
       \E k \in 1..Len(Adapters) :
         /\ pc = Adapters[k]
         /\ Len(all_dataframes) = k - 1
         /\ pc' \in {IF k < Len(Adapters) THEN Adapters[k + 1] ELSE "merge_all_data", "crashed"}
         /\ UNCHANGED <<df_merged, df_interpolated, df_final>>
  /\ pc = "merge_all_data" =>
       /\ Len(all_dataframes) = Len(Adapters)
       /\ df_merged' = merge_all_data(all_dataframes)
       /\ pc' \in {"interpolate_missing_years", "no_data"}
       /\ UNCHANGED <<df_interpolated, df_final>>
  /\ pc = "interpolate_missing_years" =>
       /\ df_interpolated' = interpolate_missing_years(df_merged)
       /\ pc' = "impute_with_commercial_score"
       /\ UNCHANGED <<df_merged, df_final>>
  /\ pc = "impute_with_commercial_score" =>
       /\ df_final' = impute_with_commercial_score(df_interpolated)
       /\ pc' = "save"
       /\ UNCHANGED df_merged
  /\ pc = "save" =>
       /\ output_file = <<>>
       /\ df_final' = Artifact(df_final)
       /\ output_file' = <<df_final'>>
       /\ pc' = "done"
  /\ pc # "save" => UNCHANGED output_file
  /\ pc \notin {"no_data", "crashed", "done"}

\* C14: every step of a run of main keeps the order adapters, merge,
\* interpolate, impute, persist: a stage starts only when the one before has
\* returned and works on that stage's output alone, the artifact is written at
\* most once and only from the imputed table, and nothing is changed after it
\* has been written.
C14_StagesInOrder == [][StageOrder]_vars

\* A run has gone through all stages and written its artifact once.
C14_Witness ==
  /\ pc = "done"
  /\ Len(all_dataframes) = Len(Adapters)
  /\ Len(df_merged.rows) > 0
  /\ Len(output_file) = 1
  /\ output_file[1] = df_final

\* The first column of `columns` that is in `matching`, <<>> if none is.
FirstIn(columns, matching) ==
  LET at == {i \in 1..Len(columns) : columns[i] \in matching}
  IN  IF at = {} THEN <<>> ELSE <<columns[CHOOSE i \in at : \A j \in at : i <= j]>>

\* The columns that pass the keyword test of a role of an adapter.
OecdCountryCols(columns) ==
  {c \in Range(columns) : Contains(Upper(c), MstiKeywords.REF_AREA) \/ Upper(c) = MstiKeywords.COUNTRY}

OecdYearCols(columns) ==
  {c \in Range(columns) : \/ Contains(Upper(c), MstiKeywords.TIME_PERIOD)
                          \/ Contains(Upper(c), MstiKeywords.TIME)
                          \/ Upper(c) = MstiKeywords.YEAR}

OecdMeasureCols(columns) == {c \in Range(columns) : Contains(Upper(c), MstiKeywords.MEASURE)}

OecdValueCols(columns) ==
  {c \in Range(columns) : Contains(Upper(c), MstiKeywords.OBS_VALUE) \/ Upper(c) = MstiKeywords.VALUE}

OecdUnitCols(columns) == {c \in Range(columns) : Contains(Upper(c), MstiKeywords.UNIT)}

LowerNameCols(columns, keywords) ==
  {c \in Range(columns) : \E k \in keywords : Contains(Lower(c), k)}

TortoisePolicyCols(columns) ==
  {c \in Range(columns) :
     \/ Contains(Lower(c), TortoiseKeywords.government) /\ Contains(Lower(c), TortoiseKeywords.strategy)
     \/ Contains(Lower(c), TortoiseKeywords.zh_policy)
     \/ Contains(Lower(c), TortoiseKeywords.policy)}

\* The roles of the R&D and broadband adapters go to the first column that
\* passes the role's test.
FirstColumnWinsOecd(columns) ==
  /\ MstiRoles(columns, 1, NoMstiRoles) =
       [ref_area_col |-> FirstIn(columns, OecdCountryCols(columns)),
        time_col     |-> FirstIn(columns, OecdYearCols(columns)),
        measure_col  |-> FirstIn(columns, OecdMeasureCols(columns)),
        value_col    |-> FirstIn(columns, OecdValueCols(columns)),
        unit_col     |-> FirstIn(columns, OecdUnitCols(columns))]
  /\ BroadbandRoles(columns, 1, NoBroadbandRoles) =
       [country_col |-> FirstIn(columns, OecdCountryCols(columns)),
        year_col    |-> FirstIn(columns, OecdYearCols(columns)),
        value_col   |-> FirstIn(columns, OecdValueCols(columns)),
        measure_col |-> FirstIn(columns, OecdMeasureCols(columns))]

\* The same for the electricity, compute-capacity and composite-index adapters.
FirstColumnWinsElsewhere(columns) ==
  /\ EmberRoles(columns, 1, [country_col |-> <<>>, year_col |-> <<>>]) =
       [country_col |-> FirstIn(columns, LowerNameCols(columns,
                          {EmberKeywords.country, EmberKeywords.zh_country,
                           EmberKeywords.area, EmberKeywords.entity})),
        year_col    |-> FirstIn(columns, LowerNameCols(columns,
                          {EmberKeywords.year, EmberKeywords.zh_year}))]
  /\ Top500Roles(columns, 1, [country_col |-> <<>>, year_col |-> <<>>, rmax_col |-> <<>>]) =
       [country_col |-> FirstIn(columns, LowerNameCols(columns,
                          {Top500Keywords.country, Top500Keywords.zh_country})),
        year_col    |-> FirstIn(columns, LowerNameCols(columns,
                          {Top500Keywords.year, Top500Keywords.zh_year})),
        rmax_col    |-> FirstIn(columns, LowerNameCols(columns,
                          {Top500Keywords.rmax, Top500Keywords.performance,
                           Top500Keywords.zh_performance}))]
  /\ TortoiseRoles(columns, 1, [country_col |-> <<>>, year_col |-> <<>>,
                                policy_col |-> <<>>, commercial_col |-> <<>>]) =
       [country_col    |-> FirstIn(columns, LowerNameCols(columns,
                             {TortoiseKeywords.country, TortoiseKeywords.zh_country,
                              TortoiseKeywords.nation})),
        year_col       |-> FirstIn(columns, LowerNameCols(columns,
                             {TortoiseKeywords.year, TortoiseKeywords.zh_year})),
        policy_col     |-> FirstIn(columns, TortoisePolicyCols(columns)),
        commercial_col |-> FirstIn(columns, LowerNameCols(columns,
                             {TortoiseKeywords.commercial, TortoiseKeywords.zh_commercial}))]

\* An adapter has returned for a table that was loaded.
AdapterReturnedFor ==
  /\ raw_source # <<>>
  /\ raw_source[1].kind = "table"
  /\ all_dataframes # <<>>

\* C15: in the column detection of every adapter, the R&D and broadband
\* adapters included, a role goes to the first column in column order that
\* passes the role's keyword test; a later column that passes it does not
\* replace the first.
C15_FirstColumnWins ==
  AdapterReturnedFor =>
    /\ FirstColumnWinsOecd(raw_source[1].df.columns)
    /\ FirstColumnWinsElsewhere(raw_source[1].df.columns)

\* The electricity, compute-capacity and composite-index adapters, whose
\* tests ask for an unfilled role, give a role to the first column.
FirstColumnWinsWhereGuarded ==
  AdapterReturnedFor => FirstColumnWinsElsewhere(raw_source[1].df.columns)

\* The cell of a raw row in the column of that name; missing without it.
RawCell(df, row, name) ==
  IF name \in Range(df.columns) THEN row[ColPos(df.columns, name)] ELSE NaNCell

\* The unit column of an R&D table, <<>> if it has none.
RDUnitColumn(df) == FirstIn(df.columns, {RC_Unit, RC_UNIT_MEASURE})

\* What the filters look at in each raw row of an R&D table: the country it
\* normalizes to, its year as a number, its measure code, whether its unit,
\* where the table has a unit column, contains USD_PPP, FTE or HC in any case,
\* and its value.
RDRead(df) ==
  [i \in 1..Len(df.rows) |->
    [Country |-> standardize_country_name(CellName(RawCell(df, df.rows[i], RC_REF_AREA))),
     Year    |-> to_numeric(RawCell(df, df.rows[i], RC_TIME_PERIOD)),
     Measure |-> RawCell(df, df.rows[i], RC_MEASURE),
     UnitOk  |-> RDUnitColumn(df) # <<>> =>
                   LET unit == RawCell(df, df.rows[i], RDUnitColumn(df)[1])
                   IN  /\ IsText(unit)
                       /\ \E k \in {Txt_USD_PPP, <<"F", "T", "E">>, Txt_HC} :
                            Contains(Upper(unit.s), k),
     Value   |-> to_numeric(RawCell(df, df.rows[i], RC_OBS_VALUE))]]

\* The values of the raw rows that count for the cell (country, year, code).
RDValuesFor(read, country, year, code) ==
  LET Counts(r) ==
        /\ r.Measure = T(code)
        /\ r.UnitOk
        /\ r.Country = country
        /\ r.Year = Num(year)
      counted == SelectSeq(read, Counts)
  IN  [i \in 1..Len(counted) |-> counted[i].Value]

\* The arithmetic mean of the values that are not missing, nan if none is.
MeanOf(vals) ==
  LET given == {i \in 1..Len(vals) : ~isna(vals[i])}
      RECURSIVE SumOver(_)
      SumOver(S) == IF S = {} THEN Num(0)
                    ELSE LET i == CHOOSE j \in S : TRUE IN RAdd(vals[i], SumOver(S \ {i}))
  IN  IF given = {} THEN nan ELSE RDivInt(SumOver(given), Cardinality(given))

\* The value of the table at (country, year, feature); nan without the row,
\* the column or the value.
CellAt(df, country, year, feature) ==
  LET at == {i \in 1..Len(df.rows) : Key(df.rows[i]) = <<country, year>>}
  IN  IF at = {} \/ feature \notin Range(df.columns) THEN nan
      ELSE df.rows[CHOOSE i \in at : TRUE].f[feature].v

\* Every cell of the R&D adapter's table is the mean of the raw rows that
\* count for it, and the table has one row per key.
RDCellsAreMeans(df, out) ==
  LET read == RDRead(df)
  IN  /\ UniqueKeys(out)
      /\ \A country \in Countries : \A year \in 2019..2022 :
           /\ CellAt(out, country, year, Col_GERD_Million_USD)
                = MeanOf(RDValuesFor(read, country, year, Txt_G))
           /\ CellAt(out, country, year, Col_Researchers)
                = MeanOf(RDValuesFor(read, country, year, Txt_T_RS))
      /\ \A i \in 1..Len(out.rows) : out.rows[i].Year \in 2019..2022

\* C16: in the table the R&D adapter returns, the cell (Country, Year,
\* Feature) is the arithmetic mean of the values of exactly the raw rows whose
\* measure code is G (for GERD_Million_USD) or T_RS (for Researchers), whose
\* unit, when the table has a unit column, contains USD_PPP, FTE or HC in any
\* case, and which normalize to that country with that year; the other rows
\* count for no cell.
C16_RDCellsAreMeans ==
  AdapterReturnedFor => RDCellsAreMeans(raw_source[1].df, all_dataframes[1])

\* The same for the tables whose unit column, if any, is named Unit and which
\* have a MEASURE column.
RDCellsAreMeansForPlainNames ==
  (/\ AdapterReturnedFor
   /\ RC_MEASURE \in Range(raw_source[1].df.columns)
   /\ RC_UNIT_MEASURE \notin Range(raw_source[1].df.columns)) =>
    RDCellsAreMeans(raw_source[1].df, all_dataframes[1])

\* The table has no MEASURE column: every row counts as gross R&D expenditure.
RDCellsAreMeansWithoutMeasure ==
  (AdapterReturnedFor /\ RC_MEASURE \notin Range(raw_source[1].df.columns)) =>
    RDCellsAreMeans(raw_source[1].df, all_dataframes[1])

\* C20: for an R&D table with the columns MEASURE and UNIT_MEASURE the column
\* detection gives the measure role to MEASURE and the unit role to
\* UNIT_MEASURE, so that the allow-list of measure codes is applied to MEASURE
\* and the unit filter to UNIT_MEASURE.
C20_UnitMeasureIsUnit ==
  (AdapterReturnedFor /\ {RC_MEASURE, RC_UNIT_MEASURE} \subseteq Range(raw_source[1].df.columns)) =>
    /\ MstiRoles(raw_source[1].df.columns, 1, NoMstiRoles).measure_col = <<RC_MEASURE>>
    /\ MstiRoles(raw_source[1].df.columns, 1, NoMstiRoles).unit_col = <<RC_UNIT_MEASURE>>
    /\ RDCellsAreMeans(raw_source[1].df, all_dataframes[1])

\* A column named UNIT_MEASURE never gets the unit role.
UnitMeasureNeverUnit ==
  AdapterReturnedFor =>
    MstiRoles(raw_source[1].df.columns, 1, NoMstiRoles).unit_col # <<RC_UNIT_MEASURE>>

\* With MEASURE before UNIT_MEASURE the measure role goes to UNIT_MEASURE and
\* no row passes the allow-list: the adapter returns no row.
UnitMeasureAfterMeasureGivesNoRow ==
  (/\ AdapterReturnedFor
   /\ raw_source[1].df.columns =
        <<RC_REF_AREA, RC_TIME_PERIOD, RC_MEASURE, RC_UNIT_MEASURE, RC_OBS_VALUE>>) =>
    /\ MstiRoles(raw_source[1].df.columns, 1, NoMstiRoles).measure_col = <<RC_UNIT_MEASURE>>
    /\ all_dataframes[1].rows = <<>>

\* What the compute-capacity adapter looks at in each raw row.
Top500Read(df) ==
  [i \in 1..Len(df.rows) |->
    [Country |-> standardize_country_name(CellName(RawCell(df, df.rows[i], RC_Country))),
     Year    |-> to_numeric(RawCell(df, df.rows[i], RC_Year)),
     Value   |-> to_numeric(RawCell(df, df.rows[i], RC_Rmax))]]

\* The sum of the values that are not missing.
SumOf(vals) ==
  LET given == {i \in 1..Len(vals) : ~isna(vals[i])}
      RECURSIVE SumOver(_)
      SumOver(S) == IF S = {} THEN Num(0)
                    ELSE LET i == CHOOSE j \in S : TRUE IN RAdd(vals[i], SumOver(S \ {i}))
  IN  SumOver(given)

\* The table has one row per key; with a year column the row of (country,
\* year) is there when raw rows normalize to the country with a year that
\* falls in that year, and carries the sum of their values; without a year
\* column there is one row per country of the raw rows, of the year 2024, with
\* the sum of the country's values.
Top500CellsAreSums(df, out) ==
  LET read == Top500Read(df)
      dated == RC_Year \in Range(df.columns)
      Of(country, year) ==
        LET Counts(r) == r.Country = country /\ (dated => (~isna(r.Year) /\ Trunc(r.Year) = year))
            counted == SelectSeq(read, Counts)
        IN  [i \in 1..Len(counted) |-> counted[i].Value]
  IN  /\ UniqueKeys(out)
      /\ \A i \in 1..Len(out.rows) :
           /\ out.rows[i].Country \in Countries
           /\ Of(out.rows[i].Country, out.rows[i].Year) # <<>>
           /\ ~dated => out.rows[i].Year = 2024
      /\ \A country \in Countries :
           \A year \in (IF dated THEN 2020..2023 ELSE {2024}) :
             Of(country, year) # <<>> =>
               /\ <<country, year>> \in Keys(out)
               /\ CellAt(out, country, year, Col_Compute_Power_Rmax) = SumOf(Of(country, year))

\* C17: the compute-capacity adapter returns one row per key; with a year
\* column Compute_Power_Rmax at (Country, Year) is the sum of the performance
\* values of all raw rows that normalize to the country with that year;
\* without a year column there is exactly one row per country, with the sum
\* over the country's raw rows and the Year 2024.
C17_RmaxSummedPerKey ==
  AdapterReturnedFor => Top500CellsAreSums(raw_source[1].df, all_dataframes[1])

\* Every year of the raw table is a whole number or missing.
WholeYears(df) ==
  \A i \in 1..Len(df.rows) :
    LET year == to_numeric(RawCell(df, df.rows[i], RC_Year))
    IN  isna(year) \/ year = Num(Trunc(year))

\* The same for raw tables whose years are whole numbers.
RmaxSummedPerKeyForWholeYears ==
  (AdapterReturnedFor /\ WholeYears(raw_source[1].df)) =>
    Top500CellsAreSums(raw_source[1].df, all_dataframes[1])

\* The feature a file name stands for: the first of patent, publication or
\* paper, citation, model that the name contains in any case, else AI_Metric.
FeatureOfFile(name) ==
  LET Has(word) == Contains(Lower(name), word)
  IN  CASE Has(<<"p", "a", "t", "e", "n", "t">>) -> Col_AI_Patents
        [] ~Has(<<"p", "a", "t", "e", "n", "t">>)
             /\ (Has(<<"p", "u", "b", "l", "i", "c", "a", "t", "i", "o", "n">>)
                   \/ Has(<<"p", "a", "p", "e", "r">>)) -> Col_AI_Publications
        [] OTHER ->
             IF Has(<<"c", "i", "t", "a", "t", "i", "o", "n">>) THEN Col_AI_Citations
             ELSE IF Has(<<"m", "o", "d", "e", "l">>) THEN Col_AI_Models
             ELSE Col_AI_Metric

\* The year a column is named by, 0 if it is named by none of 2010..2024.
IndexYearOf(col) ==
  IF \E y \in 2010..2024 : col = <<"2", "0">> \o <<Digits[((y % 100) \div 10) + 1], Digits[(y % 10) + 1]>>
  THEN CHOOSE y \in 2010..2024 :
         col = <<"2", "0">> \o <<Digits[((y % 100) \div 10) + 1], Digits[(y % 10) + 1]>>
  ELSE 0

\* A csv file that can be read is relevant when a column is named by a year
\* of 2010..2024 and one of the first twenty values of its first column
\* normalizes to a canonical country.
RelevantFile(file) ==
  /\ file.readable
  /\ Len(file.name) >= 4
  /\ SubSeq(file.name, Len(file.name) - 3, Len(file.name)) = <<".", "c", "s", "v">>
  /\ \E k \in 1..Len(file.df.columns) : IndexYearOf(file.df.columns[k]) # 0
  /\ \E i \in 1..Len(file.df.rows) :
       /\ i <= 20
       /\ standardize_country_name(AsStr(file.df.rows[i][1])) \in Countries

\* What is read of each file once: whether it is relevant, its feature, the
\* canonical name of each row and the year of each column.
IndexRead(files) ==
  [n \in 1..Len(files) |->
     [relevant |-> RelevantFile(files[n]),
      feature |-> FeatureOfFile(files[n].name),
      names |-> [i \in 1..Len(files[n].df.rows) |->
                   standardize_country_name(CellName(files[n].df.rows[i][1]))],
      years |-> [k \in 1..Len(files[n].df.columns) |-> IndexYearOf(files[n].df.columns[k])],
      rows |-> files[n].df.rows]]

\* The values the relevant files of a feature give for a country and year.
IndexValuesFor(read, country, year, feature) ==
  LET Given(file) ==
        IF ~(file.relevant /\ file.feature = feature) THEN <<>>
        ELSE Flatten([k \in 1..Len(file.years) |->
               IF file.years[k] # year THEN <<>>
               ELSE Flatten([i \in 1..Len(file.rows) |->
                      IF file.names[i] = country THEN <<to_numeric(file.rows[i][k])>>
                      ELSE <<>>])])
  IN  Flatten([n \in 1..Len(read) |-> Given(read[n])])

\* The largest of the values that are not missing, nan if none is.
MaxOf(vals) ==
  LET given == {vals[i] : i \in {j \in 1..Len(vals) : ~isna(vals[j])}}
  IN  IF given = {} THEN nan ELSE CHOOSE v \in given : \A w \in given : ~RLess(v, w)

IndexFeatures ==
  {Col_AI_Patents, Col_AI_Publications, Col_AI_Citations, Col_AI_Models, Col_AI_Metric}

\* C18: in the table the AI-index adapter returns, the cell (Country, Year,
\* Feature) is the maximum, not the sum, of the values that the relevant files
\* of that feature give for the country and year; a file is relevant only with
\* a column named by a year of 2010..2024 and a canonical country among the
\* first twenty values of its first column; the feature of a file follows from
\* its name by the order patent, publication or paper, citation, model, else
\* AI_Metric; a file that cannot be loaded is skipped and the others count as
\* without it.
C18_IndexCellsAreMaxima ==
  (raw_source # <<>> /\ raw_source[1].kind = "folder" /\ ~raw_source[1].fault
     /\ all_dataframes # <<>>) =>
    LET out == all_dataframes[Len(all_dataframes)]
        read == IndexRead(raw_source[1].files)
    IN  /\ UniqueKeys(out)
        /\ \A i \in 1..Len(out.rows) :
             out.rows[i].Country \in Countries /\ out.rows[i].Year \in 2010..2024
        /\ Range(out.columns) \subseteq {Col_Country, Col_Year} \cup IndexFeatures
        /\ \A country \in {China, India, UnitedStates, Japan} : \A year \in {2009, 2020, 2021} :
             \A feature \in IndexFeatures :
               CellAt(out, country, year, feature)
                 = MaxOf(IndexValuesFor(read, country, year, feature))

\* The adapter has returned for a folder of the two patent files: the United
\* States have the larger of the two files' values for 2020, not their sum,
\* and the column named 2025 has left no row.
C18_Witness ==
  /\ pc = "returned"
  /\ raw_source # <<>>
  /\ raw_source[1].kind = "folder"
  /\ {raw_source[1].files[i].name : i \in 1..Len(raw_source[1].files)}
       = {File_patents, File_patents_by_office}
  /\ CellAt(all_dataframes[1], UnitedStates, 2020, Col_AI_Patents) = Num(8)
  /\ \A i \in 1..Len(all_dataframes[1].rows) : all_dataframes[1].rows[i].Year # 2025

\* The adapter has returned for a folder with a file that cannot be read and
\* a file that can: the table has the rows of the readable file.
IndexFileSkipped ==
  /\ pc = "returned"
  /\ raw_source # <<>>
  /\ raw_source[1].kind = "folder"
  /\ \E i \in 1..Len(raw_source[1].files) : ~raw_source[1].files[i].readable
  /\ all_dataframes[1].rows # <<>>

\* A raw value that carries no country name: a missing value, the empty
\* string or a string of whitespace only.
CarriesNoName(raw) == raw = NaN \/ Strip(raw) = <<>>

\* The rows filter_target_countries leaves of a table of one row whose
\* country cell is the raw value.
FilteredRowOf(raw) ==
  filter_target_countries(<< <<IF raw = NaN THEN NaNCell ELSE TextCell(raw), NumCell(Num(2020))>> >>, 1)

\* C19: standardize_country_name returns None for a raw value that carries no
\* country name (a missing value, an empty string, a string that is empty
\* after trimming whitespace), and filter_target_countries removes a row whose
\* country cell is such a value.
C19_NoNameGivesNone ==
  (pc = "returned" /\ CarriesNoName(country_name)) =>
    /\ std_name = None
    /\ FilteredRowOf(country_name) = <<>>

\* A missing value gives None, and its row is removed.
MissingGivesNone ==
  (pc = "returned" /\ country_name = NaN) =>
    (std_name = None /\ FilteredRowOf(country_name) = <<>>)

\* An empty string and a string of whitespace only give China: the trimmed
\* name is contained in the first alias of the table, and the row is kept as
\* a row of China.
BlankGivesChina ==
  (pc = "returned" /\ country_name # NaN /\ Strip(country_name) = <<>>) =>
    /\ std_name = China
    /\ Len(FilteredRowOf(country_name)) = 1
    /\ FilteredRowOf(country_name)[1][1] = TextCell(China)
----------------------------------------------------------------------------
(* The interpolator's and the imputer's frame *)

\* The rows of a year, in table order.
RowsOfYearIn(rows, year) ==
  LET InYear(r) == r.Year = year
  IN  SelectSeq(rows, InYear)

\* A numeric column is missing in all of the rows or in none of them.
AllOrNone(rows, col) ==
  \/ \A p \in 1..Len(rows) : isna(rows[p].f[col].v)
  \/ \A p \in 1..Len(rows) : ~isna(rows[p].f[col].v)

\* The rows given for a year are the rows the result has for it, and every
\* cell of col that has a value keeps it.
ObservedKept(given, result, col) ==
  \A y \in {given[i].Year : i \in 1..Len(given)} :
    LET before == RowsOfYearIn(given, y)
        after  == RowsOfYearIn(result, y)
    IN  /\ Len(after) = Len(before)
        /\ \A i \in 1..Len(before) :
             ~isna(before[i].f[col].v) => after[i].f[col] = before[i].f[col]

\* The table with the rows of one country only.
OnlyCountry(df, country) == DataFrame(df.columns, RowsOfCountry(df, country))

\* C21: after interpolate_missing_years, for every country and every numeric
\* feature column, the column is missing in all of the country's rows, and
\* then the country had no value for it, or in none of them; every cell that
\* had a value in the merged table keeps exactly that value; and the rows of
\* a country are what the interpolator gives for the rows of that country
\* alone, so no cell is computed from another country's values.
C21_AllOrNoneAndObservedKept ==
  Interpolated =>
    \A country \in Countries :
      LET given  == RowsOfCountry(df_merged, country)
          result == RowsOfCountry(df_interpolated, country)
      IN  /\ \A col \in Range(FeatureCols(df_merged)) :
               IsNumericCol(df_merged, col) =>
                 /\ AllOrNone(result, col)
                 /\ (\A p \in 1..Len(result) : isna(result[p].f[col].v))
                      <=> (\A i \in 1..Len(given) : isna(given[i].f[col].v))
                 /\ ObservedKept(given, result, col)
          /\ given # <<>> =>
               result = interpolate_missing_years(OnlyCountry(df_merged, country)).rows

\* China has a value and the United States have rows of three years without
\* one: the rows of the United States stay without a value, the rows of China
\* all have China's value.
C21_Witness ==
  /\ Interpolated
  /\ df_merged = InterpTable(<<2018, 2020>>, <<nan, nan>>, "two_countries")
  /\ Len(RowsOfCountry(df_interpolated, UnitedStates)) = 3
  /\ \A p \in 1..3 :
       isna(RowsOfCountry(df_interpolated, UnitedStates)[p].f[Col_GERD_Million_USD].v)
  /\ Len(RowsOfCountry(df_interpolated, China)) = 3
  /\ \A p \in 1..3 :
       RowsOfCountry(df_interpolated, China)[p].f[Col_GERD_Million_USD] = NumCell(Num(10))

\* The table has no column named Commercial_Score.
NoCommercialScore(df) == ~InList(Col_Commercial_Score, df.columns)

\* C22: when the table given to impute_with_commercial_score has no
\* Commercial_Score column, the table returned is the table given: no column
\* Business_AI_Adoption is created and no business-AI cell is filled, with or
\* without a business-AI column.
C22_UnchangedWithoutCommercialScore ==
  [][(pc = "impute_with_commercial_score" /\ NoCommercialScore(df_interpolated))
       => /\ df_final' = df_interpolated
          /\ ~InList(Col_Business_AI_Adoption, df_final'.columns)
          /\ \A col \in Range(business_col_of(df_interpolated)) :
               \A i \in 1..Len(df_interpolated.rows) :
                 df_final'.rows[i].f[col] = df_interpolated.rows[i].f[col]]_vars

\* The imputer has returned a table without a Commercial_Score column and
\* with a business-AI column: the row of China still has the column missing.
C22_Witness ==
  /\ pc = "save"
  /\ df_final.columns = <<Col_Year, Col_Country, Col_Business_AI_Usage>>
  /\ Len(df_final.rows) = 2
  /\ df_final.rows[1].Country = China
  /\ df_final.rows[1].f[Col_Business_AI_Usage] = NaNCell
  /\ df_final.rows[2].f[Col_Business_AI_Usage] = NumCell(Num(20))

\* The imputer has returned a table with neither column as it was given.
UnchangedWithNeitherColumn ==
  /\ pc = "save"
  /\ df_final.columns = <<Col_Year, Col_Country>>
  /\ Len(df_final.rows) = 2

\* The imputer creates the new column for this table.
CreatesColumn(df) == ~NoCommercialScore(df) /\ NoBusinessColumn(df)

\* C23: impute_with_commercial_score applied to the table it has returned
\* changes nothing, when it has filled a business-AI column, when it has
\* created Business_AI_Adoption, which the second application finds as the
\* business-AI column, and when it has returned the table as given.
C23_ImputeIdempotent ==
  [][pc = "impute_with_commercial_score"
       => /\ impute_with_commercial_score(df_final') = df_final'
          /\ CreatesColumn(df_interpolated) =>
               business_col_of(df_final') = <<Col_Business_AI_Adoption>>]_vars

\* The imputer has created Business_AI_Adoption with China's score of 10 and
\* a missing cell for the United States, and a second application finds the
\* column and returns the same table.
C23_Witness ==
  /\ pc = "save"
  /\ df_final.columns =
       <<Col_Year, Col_Country, Col_Policy_Score, Col_Commercial_Score, Col_Business_AI_Adoption>>
  /\ Len(df_final.rows) = 2
  /\ df_final.rows[1].Country = China
  /\ df_final.rows[1].f[Col_Business_AI_Adoption] = NumCell(Num(10))
  /\ df_final.rows[2].Country = UnitedStates
  /\ df_final.rows[2].f[Col_Business_AI_Adoption] = NaNCell
  /\ business_col_of(df_final) = <<Col_Business_AI_Adoption>>
  /\ impute_with_commercial_score(df_final) = df_final

\* The imputer has filled the cell of China in a business-AI column the
\* table had, left China's second cell missing beside a missing score, and a
\* second application returns the same table.
IdempotentAfterFill ==
  /\ pc = "save"
  /\ df_final.columns = <<Col_Year, Col_Country, Col_Commercial_Score, Col_Business_AI_Usage>>
  /\ Len(df_final.rows) = 2
  /\ df_final.rows[1].Country = China
  /\ df_final.rows[1].f[Col_Business_AI_Usage] = NumCell(Num(30))
  /\ df_final.rows[2].Country = China
  /\ df_final.rows[2].f[Col_Commercial_Score] = NaNCell
  /\ df_final.rows[2].f[Col_Business_AI_Usage] = NaNCell
  /\ impute_with_commercial_score(df_final) = df_final

=============================================================================
